---- MODULE Spec2Model ----
(***************************************************************************)
(* Shopfloor simulator: the per-machine state machines (forming press,     *)
(* pick-and-place robot, stud spot welder, single welding robot), the      *)
(* bounded part buffers between the stations, the line coordinator and     *)
(* the two driver loops (production line, single robot).                   *)
(*                                                                         *)
(* Time is an integer number of time units.  One driver tick advances the  *)
(* clock by PublishInterval; a wall-clock read made inside a tick          *)
(* (time.Now, time.Since) returns the tick's own time.  Random draws       *)
(* (error roll, error code, error duration, scrap roll) and the shift      *)
(* calendar's answers (break time, shift change) are inputs of the tick.   *)
(***************************************************************************)
EXTENDS Integers, Sequences, FiniteSets, TLC

VARIABLES
    cfg,      \* the configuration the process was started with
    clock,    \* time of the latest tick
    brk,      \* isBreakTime computed by the driver in the latest tick
    fm,       \* forming machine
    pr,       \* picker robot
    sw,       \* spot welder
    fbuf,     \* forming output buffer = picker input buffer (part ids)
    wbuf,     \* welder input buffer = picker output buffer (part ids)
    orders,   \* every ProductionOrder generated so far; an order's id is its index
    coord,    \* line coordinator
    drv,      \* driver loop locals
    wr,       \* single welding robot
    req,      \* latest direct TransitionTo request and its outcome
    budget,   \* disturbances (errors, breaks, scrap rolls, shift changes) still allowed
    partOrderID,  \* Part.OrderID of every Part object created so far, by part id
    weldedParts,  \* the parts that have left the spot welder, in order, with their outcome
    opcua,        \* the node values last written to the OPC UA server, per machine
    simPc,        \* where the simulation thread is within its tick ("wait" between ticks)
    obs,          \* the REST observer thread serving GET /api/machines
    erp,          \* the fire-and-forget ERP push tasks
    rc,           \* config.RuntimeConfig: the fields and the state of its RWMutex
    post,         \* the handler goroutine serving POST /api/config
    get,          \* a goroutine calling RuntimeConfig.Snapshot (GET /api/config)
    whole,        \* the RuntimeConfig states before and after each whole update
    bench,        \* a PartBuffer called directly, with the parts it accepted and returned
    sm,           \* erp.ShiftManager, the Shift objects it created and who holds them
    life          \* the driver: where main is, what it has stopped, panics and their log

vars == <<cfg, clock, brk, fm, pr, sw, fbuf, wbuf, orders, coord, drv, wr, req, budget,
          partOrderID, weldedParts, opcua, simPc, obs, erp, rc, post, get, whole, bench, sm,
          life>>

----------------------------------------------------------------------------
(* Bounds of the exploration *)

MaxTicksDisturbed == 30
MaxTicksQuiet == 104
MaxTicksBlocked == 72
CalmTicksBlocked == 66
MaxTicksSingle == 26
MaxErrors == 1
MaxBreaks == 1
MaxScrapRolls == 1
MaxShiftChanges == 1

(* Time base: units per second, and the configured durations *)
Second == 4
PublishInterval == 5 * Second
CycleTime == 25 * Second
ShortSetupTime == 10 * Second
LongSetupTime == 150 * Second
OrderUpdatePeriod == 5 * Second

----------------------------------------------------------------------------
(* core: machine states, order status, errors *)

StateIdle == "Idle"
StateSetup == "Setup"
StateRunning == "Running"
StatePlannedStop == "PlannedStop"
StateUnplannedStop == "UnplannedStop"
MachineStates == {StateIdle, StateSetup, StateRunning, StatePlannedStop, StateUnplannedStop}

OrderStatusQueued == "QUEUED"
OrderStatusInProgress == "IN_PROGRESS"
OrderStatusCompleted == "COMPLETED"

NoOrder == 0
NoPart == 0

NoError == [present |-> FALSE, code |-> "", occurredAt |-> 0, expectedEnd |-> 0]

NoRequest == [machine |-> "", from |-> "", to |-> ""]

\* time.Duration(float64(d) * fraction), the fraction given in percent
Fraction(d, pct) == (d * pct) \div 100

----------------------------------------------------------------------------
(* core.PartBuffer: a buffer is a record [cap, q] *)

NewPartBuffer(capacity) == [cap |-> capacity, q |-> <<>>]

Count(pb) == Len(pb.q)

IsFull(pb) == Len(pb.q) >= pb.cap

IsEmpty(pb) == Len(pb.q) = 0

PushUnchecked(pb, part) == [ok |-> TRUE, pb |-> [pb EXCEPT !.q = Append(@, part)]]

\* Push returns the success flag and the buffer after the call
Push(pb, part) ==
    IF Len(pb.q) >= pb.cap
    THEN [ok |-> FALSE, pb |-> pb]
    ELSE [ok |-> TRUE, pb |-> [pb EXCEPT !.q = Append(@, part)]]

PopKeep(pb) ==
    IF Len(pb.q) = 0
    THEN [part |-> NoPart, pb |-> pb]
    ELSE [part |-> Head(pb.q), pb |-> pb]

\* Pop returns the oldest part (NoPart on a miss) and the buffer after the call
Pop(pb) ==
    IF Len(pb.q) = 0
    THEN [part |-> NoPart, pb |-> pb]
    ELSE [part |-> Head(pb.q), pb |-> [pb EXCEPT !.q = Tail(@)]]

----------------------------------------------------------------------------
(* core.BaseMachine.  A world w is the record of all state components; a   *)
(* machine is addressed by the name k of its component ("fm", "pr", "sw",  *)
(* "wr").  Orders are shared objects: a machine holds an order by its id.  *)

NewBaseMachine ==
    [state |-> StateIdle, stateEnteredAt |-> 0, cycleStartedAt |-> 0,
     currentOrder |-> NoOrder, orderQueue |-> <<>>,
     goodParts |-> 0, scrapParts |-> 0, currentError |-> NoError,
     cycleCompleteFired |-> 0, lastScrapRoll |-> FALSE]

TransitionTo(w, k, newState) ==
    IF w[k].state = newState
    THEN w
    ELSE [w EXCEPT ![k].state = newState, ![k].stateEnteredAt = w.clock]

AddOrder(w, k, order) == [w EXCEPT ![k].orderQueue = Append(@, order)]

ResetCountersNot(w, k) == w

ResetCounters(w, k) == [w EXCEPT ![k].goodParts = 0, ![k].scrapParts = 0]

TriggerErrorNoDuration(w, k, code, duration) ==
    TransitionTo([w EXCEPT ![k].currentError =
                     [present |-> TRUE, code |-> code, occurredAt |-> w.clock,
                      expectedEnd |-> w.clock]],
                 k, StateUnplannedStop)

TriggerError(w, k, code, duration) ==
    TransitionTo([w EXCEPT ![k].currentError =
                     [present |-> TRUE, code |-> code, occurredAt |-> w.clock,
                      expectedEnd |-> w.clock + duration]],
                 k, StateUnplannedStop)

ClearError(w, k) == [w EXCEPT ![k].currentError = NoError]

IsErrorResolved(w, k, now) ==
    w[k].currentError.present /\ now > w[k].currentError.expectedEnd

StartNextOrder(w, k, now) ==
    IF Len(w[k].orderQueue) = 0
    THEN w
    ELSE LET o == Head(w[k].orderQueue)
         IN [w EXCEPT ![k].currentOrder = o,
                      ![k].orderQueue = Tail(@),
                      !.orders[o].Status = OrderStatusInProgress,
                      !.orders[o].StartedAt = now]

CompleteCycle(w, k, isScrap) ==
    LET o == w[k].currentOrder
        w1 == IF isScrap
              THEN [w EXCEPT ![k].scrapParts = @ + 1]
              ELSE [w EXCEPT ![k].goodParts = @ + 1]
        w2 == IF o = NoOrder THEN w1
              ELSE IF isScrap
                   THEN [w1 EXCEPT !.orders[o].QuantityScrap = @ + 1]
                   ELSE [w1 EXCEPT !.orders[o].QuantityCompleted = @ + 1]
    IN [w2 EXCEPT ![k].cycleCompleteFired = @ + 1, ![k].lastScrapRoll = isScrap]

IsOrderComplete(w, k) ==
    IF w[k].currentOrder = NoOrder
    THEN FALSE
    ELSE LET o == w.orders[w[k].currentOrder]
         IN o.QuantityCompleted + o.QuantityScrap >= o.Quantity

ElapsedInState(w, k) == w.clock - w[k].stateEnteredAt

ElapsedInCycle(w, k) == w.clock - w[k].cycleStartedAt

\* A freshly generated order (OrderGenerator.GenerateOrder), appended to the order store
NewOrder(qty) ==
    [Quantity |-> qty, QuantityCompleted |-> 0, QuantityScrap |-> 0,
     Status |-> OrderStatusQueued, StartedAt |-> 0]

\* The single-robot driver's OnOrderComplete callback: generate an order and queue it
OnOrderComplete(w, k, qty) ==
    LET w1 == [w EXCEPT !.orders = Append(@, NewOrder(qty))]
    IN AddOrder(w1, k, Len(w1.orders))

\* FinishOrder; only the single robot has callbacks registered
FinishOrder(w, k, qty) ==
    IF w[k].currentOrder = NoOrder
    THEN w
    ELSE LET o == w[k].currentOrder
             w1 == [w EXCEPT !.orders[o].Status = OrderStatusCompleted]
             w2 == IF k = "wr" THEN OnOrderComplete(w1, k, qty) ELSE w1
         IN [w2 EXCEPT ![k].currentOrder = NoOrder]

SetPhase(w, k, phase) == [w EXCEPT ![k].phase = phase]

----------------------------------------------------------------------------
(* forming.FormingMachine *)

FormingErrorCodes == {"F001", "F002", "F003", "F004", "F005", "F006"}

\* GetErrorInfo: minimum duration of each forming error
FormingMinDuration(code) ==
    CASE code = "F001" -> 30 * Second
      [] code = "F002" -> 60 * Second
      [] code = "F003" -> 45 * Second
      [] code = "F004" -> 120 * Second
      [] code = "F005" -> 15 * Second
      [] OTHER -> 60 * Second

NewFormingMachine ==
    [f \in DOMAIN NewBaseMachine \cup {"phase", "cycleCount", "currentPartID", "partCounter"} |->
        CASE f = "phase" -> "Idle"
          [] f = "cycleCount" -> 0
          [] f = "currentPartID" -> NoPart
          [] f = "partCounter" -> 0
          [] OTHER -> NewBaseMachine[f]]

generatePartID(w) ==
    [w EXCEPT !.fm.partCounter = @ + 1, !.fm.currentPartID = w.fm.partCounter + 1]

FormingUpdateIdle(w, now) ==
    LET w1 == [w EXCEPT !.fm.phase = "Idle"]
    IN IF w1.fm.currentOrder # NoOrder \/ Len(w1.fm.orderQueue) > 0
       THEN TransitionTo(IF w1.fm.currentOrder = NoOrder
                         THEN StartNextOrder(w1, "fm", now) ELSE w1,
                         "fm", StateSetup)
       ELSE w1

FormingUpdateSetup(w, elapsed, now) ==
    IF elapsed >= w.cfg.SetupTime
    THEN generatePartID(SetPhase([TransitionTo(w, "fm", StateRunning)
                                     EXCEPT !.fm.cycleStartedAt = now], "fm", "Load"))
    ELSE w

FormingShouldTriggerError(w, in) ==
    IF w.fm.phase # "Form" /\ w.fm.phase # "Hold" THEN FALSE ELSE in.errRoll

FormingTriggerError(w, now, in) ==
    [TriggerError(w, "fm", in.errCode, in.errDur) EXCEPT !.fm.phase = "Idle"]

ejectPartDropsLate(w, now, in) ==
    LET isScrap == in.scrapRoll
        o == w.fm.currentOrder
        r == Push(w.fbuf, w.fm.currentPartID)
        w1 == IF isScrap
              THEN LET a == [w EXCEPT !.fm.scrapParts = @ + 1]
                   IN IF o # NoOrder THEN [a EXCEPT !.orders[o].QuantityScrap = @ + 1] ELSE a
              ELSE IF ~r.ok
                   THEN [w EXCEPT !.fm.scrapParts = @ + 1]
                   ELSE LET a == [w EXCEPT !.fbuf = r.pb, !.fm.goodParts = @ + 1]
                        IN IF o # NoOrder
                           THEN [a EXCEPT !.orders[o].QuantityCompleted = @ + 1] ELSE a
    IN IF ElapsedInCycle(w, "fm") > w.cfg.CycleTime
       THEN w
       ELSE CompleteCycle(w1, "fm", isScrap \/ ~r.ok)

ejectPart(w, now, in) ==
    LET isScrap == in.scrapRoll
        o == w.fm.currentOrder
        r == Push(w.fbuf, w.fm.currentPartID)
        w1 == IF isScrap
              THEN LET a == [w EXCEPT !.fm.scrapParts = @ + 1]
                   IN IF o # NoOrder THEN [a EXCEPT !.orders[o].QuantityScrap = @ + 1] ELSE a
              ELSE IF ~r.ok
                   THEN [w EXCEPT !.fm.scrapParts = @ + 1]
                   ELSE LET a == [w EXCEPT !.fbuf = r.pb, !.fm.goodParts = @ + 1]
                        IN IF o # NoOrder
                           THEN [a EXCEPT !.orders[o].QuantityCompleted = @ + 1] ELSE a
    IN CompleteCycle(w1, "fm", isScrap \/ ~r.ok)

FormingCompleteCycle(w, now, in) ==
    LET w1 == [w EXCEPT !.fm.cycleCount = @ + 1]
    IN IF IsOrderComplete(w1, "fm")
       THEN [TransitionTo(FinishOrder(w1, "fm", in.qty), "fm", StateIdle) EXCEPT !.fm.phase = "Idle"]
       ELSE generatePartID(SetPhase([w1 EXCEPT !.fm.cycleStartedAt = now], "fm", "Load"))

OutputBufferNeverBlocks(w) == FALSE

\* "output buffer is full - need to pause"
OutputBufferBlocks(w) == IsFull(w.fbuf) /\ w.fm.phase = "Eject"

FormingUpdateRunning(w, now, isBreakTime, in) ==
    IF isBreakTime
    THEN [TransitionTo(w, "fm", StatePlannedStop) EXCEPT !.fm.phase = "Idle"]
    ELSE IF FormingShouldTriggerError(w, in)
    THEN FormingTriggerError(w, now, in)
    ELSE IF OutputBufferBlocks(w)
    THEN w
    ELSE LET cycleElapsed == ElapsedInCycle(w, "fm")
             cycleTime == w.cfg.CycleTime
             loadEnd == Fraction(cycleTime, 10)
             formEnd == loadEnd + Fraction(cycleTime, 40)
             holdEnd == formEnd + Fraction(cycleTime, 15)
             ejectEnd == holdEnd + Fraction(cycleTime, 15)
         IN CASE w.fm.phase = "Load" ->
                    IF cycleElapsed >= loadEnd THEN SetPhase(w, "fm", "Form") ELSE w
              [] w.fm.phase = "Form" ->
                    IF cycleElapsed >= formEnd THEN SetPhase(w, "fm", "Hold") ELSE w
              [] w.fm.phase = "Hold" ->
                    IF cycleElapsed >= holdEnd THEN SetPhase(w, "fm", "Eject") ELSE w
              [] w.fm.phase = "Eject" ->
                    IF cycleElapsed >= ejectEnd
                    THEN SetPhase(ejectPart(w, now, in), "fm", "Raise") ELSE w
              [] w.fm.phase = "Raise" ->
                    IF cycleElapsed >= cycleTime THEN FormingCompleteCycle(w, now, in) ELSE w
              [] OTHER -> w

UpdatePlannedStop(w, k, isBreakTime) ==
    IF ~isBreakTime THEN TransitionTo(w, k, StateIdle) ELSE w

UpdateUnplannedStop(w, k, now) ==
    IF IsErrorResolved(w, k, now)
    THEN TransitionTo(ClearError(w, k), k, StateIdle)
    ELSE w

FormingUpdate(w, now, isBreakTime, in) ==
    LET elapsed == ElapsedInState(w, "fm")
    IN CASE w.fm.state = StateIdle -> FormingUpdateIdle(w, now)
         [] w.fm.state = StateSetup -> FormingUpdateSetup(w, elapsed, now)
         [] w.fm.state = StateRunning -> FormingUpdateRunning(w, now, isBreakTime, in)
         [] w.fm.state = StatePlannedStop -> UpdatePlannedStop(w, "fm", isBreakTime)
         [] w.fm.state = StateUnplannedStop -> UpdateUnplannedStop(w, "fm", now)
         [] OTHER -> w

----------------------------------------------------------------------------
(* core.MachineConfig: the getters that consult the RuntimeConfig.  The    *)
(* production line runner gives every machine the RuntimeConfig; the single *)
(* welding robot has none                                                    *)

ModeLine == "line"
ModeSingle == "single"

HasRuntime(w) == w.cfg.mode = ModeLine

GetEffectiveCycleTime(w) ==
    IF HasRuntime(w) THEN (w.rc.baseCycleTime * 100) \div w.rc.cycleTimeScale
    ELSE w.cfg.CycleTime

GetEffectiveSetupTime(w) ==
    IF HasRuntime(w) THEN (w.rc.baseSetupTime * 100) \div w.rc.cycleTimeScale
    ELSE w.cfg.SetupTime

\* in percent, as Config.ErrorRate
GetEffectiveErrorRate(w) ==
    IF HasRuntime(w) THEN w.rc.errorRate \div 10 ELSE w.cfg.ErrorRate

GetEffectiveErrorDuration(w, baseDuration) ==
    IF HasRuntime(w) THEN (baseDuration * 100) \div w.rc.cycleTimeScale
    ELSE baseDuration

----------------------------------------------------------------------------
(* picker.PickerRobot *)

PickerErrorCodes == {"P001", "P002", "P003", "P004", "P005", "P006"}

ErrorPartDropped == "P004"

PickerMinDuration(code) ==
    CASE code = "P001" -> 30 * Second
      [] code = "P002" -> 60 * Second
      [] code = "P003" -> 45 * Second
      [] code = "P004" -> 30 * Second
      [] code = "P005" -> 60 * Second
      [] OTHER -> 20 * Second

NewPickerRobot ==
    [f \in DOMAIN NewBaseMachine \cup {"phase", "cycleCount", "heldPartID"} |->
        CASE f = "phase" -> "Idle"
          [] f = "cycleCount" -> 0
          [] f = "heldPartID" -> NoPart
          [] OTHER -> NewBaseMachine[f]]

PickerUpdateIdle(w, now) ==
    LET w1 == [w EXCEPT !.pr.phase = "Idle"]
    IN IF Count(w1.fbuf) > 0 THEN TransitionTo(w1, "pr", StateSetup) ELSE w1

PickerUpdateSetup(w, elapsed, now) ==
    IF elapsed >= GetEffectiveSetupTime(w)
    THEN SetPhase([TransitionTo(w, "pr", StateRunning) EXCEPT !.pr.cycleStartedAt = now],
                  "pr", "MoveToPickup")
    ELSE w

updateGrip(w, elapsed, phaseEnd, now) ==
    IF elapsed >= phaseEnd
    THEN LET r == Pop(w.fbuf)
             w1 == IF r.part # NoPart
                   THEN [w EXCEPT !.fbuf = r.pb, !.pr.heldPartID = r.part]
                   ELSE w
         IN SetPhase(w1, "pr", "RetractPickup")
    ELSE w

updateRelease(w, elapsed, phaseEnd, now) ==
    IF elapsed >= phaseEnd
    THEN LET w1 == IF w.pr.heldPartID # NoPart
                   THEN [w EXCEPT !.wbuf = Push(w.wbuf, w.pr.heldPartID).pb,
                                  !.pr.heldPartID = NoPart]
                   ELSE w
         IN SetPhase(w1, "pr", "RetractPlace")
    ELSE w

PickerCompleteCycle(w, now) ==
    LET w1 == CompleteCycle([w EXCEPT !.pr.cycleCount = @ + 1, !.pr.goodParts = @ + 1],
                            "pr", FALSE)
    IN IF Count(w1.fbuf) > 0
       THEN SetPhase([w1 EXCEPT !.pr.cycleStartedAt = now], "pr", "MoveToPickup")
       ELSE [TransitionTo(w1, "pr", StateIdle) EXCEPT !.pr.phase = "Idle"]

PickerShouldTriggerError(w, in) ==
    IF w.pr.phase = "Idle" THEN FALSE ELSE in.errRoll

PickerTriggerError(w, now, in) ==
    LET duration == GetEffectiveErrorDuration(w, in.errDur)
        w1 == IF in.errCode = ErrorPartDropped /\ w.pr.heldPartID # NoPart
              THEN [w EXCEPT !.pr.scrapParts = @ + 1, !.pr.heldPartID = NoPart]
              ELSE w
    IN [TriggerError(w1, "pr", in.errCode, duration) EXCEPT !.pr.phase = "Idle"]

PickerStopsForAnyBreak(w, isBreakTime) == isBreakTime

\* "Check for break time - only stop if not holding a part"
PickerStopsForBreak(w, isBreakTime) == isBreakTime /\ w.pr.heldPartID = NoPart

PickerUpdateRunning(w, now, isBreakTime, in) ==
    IF PickerStopsForBreak(w, isBreakTime)
    THEN [TransitionTo(w, "pr", StatePlannedStop) EXCEPT !.pr.phase = "Idle"]
    ELSE IF PickerShouldTriggerError(w, in)
    THEN PickerTriggerError(w, now, in)
    ELSE LET cycleElapsed == ElapsedInCycle(w, "pr")
             cycleTime == GetEffectiveCycleTime(w)
             moveToPickupEnd == Fraction(cycleTime, 15)
             approachPickupEnd == moveToPickupEnd + Fraction(cycleTime, 8)
             gripEnd == approachPickupEnd + Fraction(cycleTime, 5)
             retractPickupEnd == gripEnd + Fraction(cycleTime, 8)
             moveToPlaceEnd == retractPickupEnd + Fraction(cycleTime, 20)
             approachPlaceEnd == moveToPlaceEnd + Fraction(cycleTime, 8)
             releaseEnd == approachPlaceEnd + Fraction(cycleTime, 5)
             retractPlaceEnd == releaseEnd + Fraction(cycleTime, 8)
         IN CASE w.pr.phase = "MoveToPickup" ->
                    IF cycleElapsed >= moveToPickupEnd
                    THEN SetPhase(w, "pr", "ApproachPickup") ELSE w
              [] w.pr.phase = "ApproachPickup" ->
                    IF cycleElapsed >= approachPickupEnd
                    THEN SetPhase(w, "pr", "Grip") ELSE w
              [] w.pr.phase = "Grip" -> updateGrip(w, cycleElapsed, gripEnd, now)
              [] w.pr.phase = "RetractPickup" ->
                    IF cycleElapsed >= retractPickupEnd
                    THEN SetPhase(w, "pr", "MoveToPlace") ELSE w
              [] w.pr.phase = "MoveToPlace" ->
                    IF cycleElapsed >= moveToPlaceEnd
                    THEN SetPhase(w, "pr", "ApproachPlace") ELSE w
              [] w.pr.phase = "ApproachPlace" ->
                    IF cycleElapsed >= approachPlaceEnd
                    THEN SetPhase(w, "pr", "Release") ELSE w
              [] w.pr.phase = "Release" -> updateRelease(w, cycleElapsed, releaseEnd, now)
              [] w.pr.phase = "RetractPlace" ->
                    IF cycleElapsed >= retractPlaceEnd
                    THEN PickerCompleteCycle(w, now) ELSE w
              [] OTHER -> w

PickerUpdate(w, now, isBreakTime, in) ==
    LET elapsed == ElapsedInState(w, "pr")
    IN CASE w.pr.state = StateIdle -> PickerUpdateIdle(w, now)
         [] w.pr.state = StateSetup -> PickerUpdateSetup(w, elapsed, now)
         [] w.pr.state = StateRunning -> PickerUpdateRunning(w, now, isBreakTime, in)
         [] w.pr.state = StatePlannedStop -> UpdatePlannedStop(w, "pr", isBreakTime)
         [] w.pr.state = StateUnplannedStop -> UpdateUnplannedStop(w, "pr", now)
         [] OTHER -> w

----------------------------------------------------------------------------
(* spotwelder.SpotWelder *)

WelderErrorCodes == {"S001", "S002", "S003", "S004", "S005", "S006"}

ErrorQualityReject == "S006"

WelderMinDuration(code) ==
    CASE code = "S001" -> 30 * Second
      [] code = "S002" -> 45 * Second
      [] code = "S003" -> 30 * Second
      [] code = "S004" -> 60 * Second
      [] code = "S005" -> 45 * Second
      [] OTHER -> 20 * Second

WeldsPerPart == 4

NewSpotWelder ==
    [f \in DOMAIN NewBaseMachine \cup
            {"phase", "cycleCount", "currentPartID", "weldsInCurrentPart",
             "totalWelds", "electrodeWeldCount"} |->
        CASE f = "phase" -> "Idle"
          [] f = "currentPartID" -> NoPart
          [] f \in {"cycleCount", "weldsInCurrentPart", "totalWelds",
                    "electrodeWeldCount"} -> 0
          [] OTHER -> NewBaseMachine[f]]

WelderUpdateIdle(w, now) ==
    LET w1 == [w EXCEPT !.sw.phase = "Idle"]
    IN IF Count(w1.wbuf) > 0 THEN TransitionTo(w1, "sw", StateSetup) ELSE w1

WelderUpdateSetupWaits(w, elapsed, now) ==
    IF elapsed >= w.cfg.SetupTime
    THEN LET r == Pop(w.wbuf)
         IN IF r.part # NoPart
            THEN [SetPhase([TransitionTo([w EXCEPT !.wbuf = r.pb, !.sw.currentPartID = r.part],
                                         "sw", StateRunning)
                               EXCEPT !.sw.cycleStartedAt = now], "sw", "Load")
                     EXCEPT !.sw.weldsInCurrentPart = 0]
            ELSE w
    ELSE w

WelderUpdateSetup(w, elapsed, now) ==
    IF elapsed >= w.cfg.SetupTime
    THEN LET r == Pop(w.wbuf)
         IN IF r.part # NoPart
            THEN [SetPhase([TransitionTo([w EXCEPT !.wbuf = r.pb, !.sw.currentPartID = r.part],
                                         "sw", StateRunning)
                               EXCEPT !.sw.cycleStartedAt = now], "sw", "Load")
                     EXCEPT !.sw.weldsInCurrentPart = 0]
            ELSE TransitionTo(w, "sw", StateIdle)
    ELSE w

updateWeldPhase(w, elapsed, phaseStart, phaseEnd) ==
    LET phaseDuration == phaseEnd - phaseStart
        phaseElapsed == elapsed - phaseStart
        n == (phaseElapsed * WeldsPerPart) \div phaseDuration
        weldNumber == IF n >= WeldsPerPart THEN WeldsPerPart - 1 ELSE n
        w1 == IF weldNumber > w.sw.weldsInCurrentPart
              THEN [w EXCEPT !.sw.weldsInCurrentPart = weldNumber,
                             !.sw.totalWelds = @ + 1,
                             !.sw.electrodeWeldCount = @ + 1]
              ELSE w
    IN IF elapsed >= phaseEnd
       THEN SetPhase([w1 EXCEPT !.sw.weldsInCurrentPart = WeldsPerPart,
                                !.sw.totalWelds = @ + 1,
                                !.sw.electrodeWeldCount = @ + 1], "sw", "Hold")
       ELSE w1

WelderShouldTriggerError(w, in) ==
    IF w.sw.phase # "Weld" THEN FALSE ELSE in.errRoll

WelderTriggerError(w, now, in) ==
    LET w1 == IF in.errCode = ErrorQualityReject /\ w.sw.currentPartID # NoPart
              THEN [w EXCEPT !.sw.scrapParts = @ + 1, !.sw.currentPartID = NoPart]
              ELSE w
    IN [TriggerError(w1, "sw", in.errCode, in.errDur) EXCEPT !.sw.phase = "Idle"]

WelderCompleteCycle(w, now, in) ==
    LET isScrap == in.scrapRoll
        w1 == [w EXCEPT !.sw.cycleCount = @ + 1]
        w2 == IF isScrap THEN [w1 EXCEPT !.sw.scrapParts = @ + 1]
                         ELSE [w1 EXCEPT !.sw.goodParts = @ + 1]
        w3 == [CompleteCycle(w2, "sw", isScrap)
                  EXCEPT !.sw.currentPartID = NoPart, !.sw.weldsInCurrentPart = 0]
    IN IF Count(w3.wbuf) > 0
       THEN LET r == Pop(w3.wbuf)
            IN SetPhase([w3 EXCEPT !.sw.cycleStartedAt = now, !.wbuf = r.pb,
                                   !.sw.currentPartID = r.part], "sw", "Load")
       ELSE [TransitionTo(w3, "sw", StateIdle) EXCEPT !.sw.phase = "Idle"]

WelderUpdateRunning(w, now, isBreakTime, in) ==
    IF isBreakTime /\ w.sw.phase = "Idle"
    THEN TransitionTo(w, "sw", StatePlannedStop)
    ELSE IF WelderShouldTriggerError(w, in)
    THEN WelderTriggerError(w, now, in)
    ELSE LET cycleElapsed == ElapsedInCycle(w, "sw")
             cycleTime == w.cfg.CycleTime
             loadEnd == Fraction(cycleTime, 10)
             clampEnd == loadEnd + Fraction(cycleTime, 10)
             preWeldEnd == clampEnd + Fraction(cycleTime, 5)
             weldEnd == preWeldEnd + Fraction(cycleTime, 35)
             holdEnd == weldEnd + Fraction(cycleTime, 15)
             releaseEnd == holdEnd + Fraction(cycleTime, 10)
         IN CASE w.sw.phase = "Load" ->
                    IF cycleElapsed >= loadEnd THEN SetPhase(w, "sw", "Clamp") ELSE w
              [] w.sw.phase = "Clamp" ->
                    IF cycleElapsed >= clampEnd THEN SetPhase(w, "sw", "PreWeld") ELSE w
              [] w.sw.phase = "PreWeld" ->
                    IF cycleElapsed >= preWeldEnd THEN SetPhase(w, "sw", "Weld") ELSE w
              [] w.sw.phase = "Weld" -> updateWeldPhase(w, cycleElapsed, preWeldEnd, weldEnd)
              [] w.sw.phase = "Hold" ->
                    IF cycleElapsed >= holdEnd THEN SetPhase(w, "sw", "Release") ELSE w
              [] w.sw.phase = "Release" ->
                    IF cycleElapsed >= releaseEnd THEN SetPhase(w, "sw", "Unload") ELSE w
              [] w.sw.phase = "Unload" ->
                    IF cycleElapsed >= cycleTime THEN WelderCompleteCycle(w, now, in) ELSE w
              [] OTHER -> w

WelderUpdate(w, now, isBreakTime, in) ==
    LET elapsed == ElapsedInState(w, "sw")
    IN CASE w.sw.state = StateIdle -> WelderUpdateIdle(w, now)
         [] w.sw.state = StateSetup -> WelderUpdateSetup(w, elapsed, now)
         [] w.sw.state = StateRunning -> WelderUpdateRunning(w, now, isBreakTime, in)
         [] w.sw.state = StatePlannedStop -> UpdatePlannedStop(w, "sw", isBreakTime)
         [] w.sw.state = StateUnplannedStop -> UpdateUnplannedStop(w, "sw", now)
         [] OTHER -> w

----------------------------------------------------------------------------
(* welding.WeldingRobot, the machine behind simulator.StateMachine *)

WeldingErrorCodes == {"E001", "E002", "E003", "E004", "E005"}

WeldingMinDuration(code) ==
    CASE code = "E001" -> 300 * Second
      [] code = "E002" -> 120 * Second
      [] code = "E003" -> 60 * Second
      [] code = "E004" -> 900 * Second
      [] OTHER -> 60 * Second

\* arcTime is weldState.ArcTime, in time units
NewWeldingRobot ==
    [f \in DOMAIN NewBaseMachine \cup {"phase", "arcTime"} |->
        IF f = "phase" THEN "Off" ELSE IF f = "arcTime" THEN 0 ELSE NewBaseMachine[f]]

WeldingUpdateIdle(w, now) ==
    LET w1 == [w EXCEPT !.wr.phase = "Off"]
    IN IF w1.wr.currentOrder # NoOrder \/ Len(w1.wr.orderQueue) > 0
       THEN TransitionTo(IF w1.wr.currentOrder = NoOrder
                         THEN StartNextOrder(w1, "wr", now) ELSE w1,
                         "wr", StateSetup)
       ELSE w1

WeldingUpdateSetup(w, elapsed, now) ==
    IF elapsed >= GetEffectiveSetupTime(w)
    THEN SetPhase([TransitionTo(w, "wr", StateRunning) EXCEPT !.wr.cycleStartedAt = now],
                  "wr", "RampUp")
    ELSE w

WeldingShouldTriggerError(w, in) ==
    IF w.wr.phase # "Steady" THEN FALSE ELSE in.errRoll

WeldingTriggerError(w, now, in) ==
    [TriggerError(w, "wr", in.errCode, in.errDur) EXCEPT !.wr.phase = "Off"]

WeldingCompleteCycle(w, now, in) ==
    LET w1 == CompleteCycle(w, "wr", in.scrapRoll)
    IN IF IsOrderComplete(w1, "wr")
       THEN [TransitionTo(FinishOrder(w1, "wr", in.qty), "wr", StateIdle) EXCEPT !.wr.phase = "Off"]
       ELSE SetPhase([w1 EXCEPT !.wr.cycleStartedAt = now], "wr", "RampUp")

WeldingUpdateRunning(w, now, isBreakTime, in) ==
    IF isBreakTime
    THEN [TransitionTo(w, "wr", StatePlannedStop) EXCEPT !.wr.phase = "Off"]
    ELSE IF WeldingShouldTriggerError(w, in)
    THEN WeldingTriggerError(w, now, in)
    ELSE LET cycleElapsed == ElapsedInCycle(w, "wr")
             cycleTime == GetEffectiveCycleTime(w)
             rampUpDuration == Fraction(cycleTime, 5)
             rampDownDuration == Fraction(cycleTime, 5)
             steadyDuration == cycleTime - rampUpDuration - rampDownDuration
         IN CASE w.wr.phase = "RampUp" ->
                    IF cycleElapsed >= rampUpDuration THEN SetPhase(w, "wr", "Steady") ELSE w
              [] w.wr.phase = "Steady" ->
                    LET w1 == [w EXCEPT !.wr.arcTime = @ + w.cfg.PublishInterval]
                    IN IF cycleElapsed >= rampUpDuration + steadyDuration
                       THEN SetPhase(w1, "wr", "RampDown") ELSE w1
              [] w.wr.phase = "RampDown" ->
                    IF cycleElapsed >= cycleTime THEN WeldingCompleteCycle(w, now, in) ELSE w
              [] OTHER -> w

WeldingUpdate(w, now, isBreakTime, in) ==
    LET elapsed == ElapsedInState(w, "wr")
    IN CASE w.wr.state = StateIdle -> WeldingUpdateIdle(w, now)
         [] w.wr.state = StateSetup -> WeldingUpdateSetup(w, elapsed, now)
         [] w.wr.state = StateRunning -> WeldingUpdateRunning(w, now, isBreakTime, in)
         [] w.wr.state = StatePlannedStop -> UpdatePlannedStop(w, "wr", isBreakTime)
         [] w.wr.state = StateUnplannedStop -> UpdateUnplannedStop(w, "wr", now)
         [] OTHER -> w

----------------------------------------------------------------------------
(* coordinator.ProductionLineCoordinator and the ProductionLineRunner *)

LineStateStopped == "Stopped"
LineStateSetup == "Setup"
LineStateRunning == "Running"
LineStateError == "Error"

FormingOutputBufferCapacity == 5
WelderInputBufferCapacity == 3

NewProductionLineCoordinator ==
    [lineState |-> LineStateStopped, currentOrder |-> NoOrder,
     totalPartsCompleted |-> 0, totalPartsScrap |-> 0, totalPartsStarted |-> 0,
     formingCompleted |-> 0, pickingCompleted |-> 0, weldingCompleted |-> 0,
     activeErrors |-> 0]

updateLineState(w) ==
    LET hasError == \E k \in {"fm", "pr", "sw"} : w[k].state = StateUnplannedStop
    IN IF hasError THEN [w EXCEPT !.coord.lineState = LineStateError]
       ELSE IF w.coord.lineState = LineStateError
            THEN [w EXCEPT !.coord.lineState = LineStateRunning]
            ELSE w

updateCounters(w) ==
    [w EXCEPT !.coord.weldingCompleted = w.sw.goodParts,
              !.coord.totalPartsCompleted = w.sw.goodParts,
              !.coord.totalPartsScrap = w.sw.scrapParts,
              !.coord.pickingCompleted = w.pr.goodParts,
              !.coord.formingCompleted = w.fm.goodParts,
              !.coord.totalPartsStarted = w.fm.goodParts]

updateErrorTracking(w) ==
    [w EXCEPT !.coord.activeErrors =
        Cardinality({k \in {"fm", "pr", "sw"} : w[k].currentError.present})]

\* in is the record of the three machines' draws
CoordinatorUpdate(w, now, isBreakTime, in) ==
    LET w1 == updateLineState(w)
        w2 == FormingUpdate(w1, now, isBreakTime, in.fm)
        w3 == PickerUpdate(w2, now, isBreakTime, in.pr)
        w4 == WelderUpdate(w3, now, isBreakTime, in.sw)
    IN updateErrorTracking(updateCounters(w4))

SetOrder(w, order) ==
    AddOrder([w EXCEPT !.coord.currentOrder = order], "fm", order)

CoordinatorStart(w) ==
    [w EXCEPT !.coord.lineState = LineStateRunning,
              !.fm.phase = "Idle", !.fm.cycleCount = 0,
              !.pr.phase = "Idle", !.pr.cycleCount = 0,
              !.sw.phase = "Idle", !.sw.cycleCount = 0]

\* Coordinator accessors used by the line driver
GetCurrentOrder(w) == w.coord.currentOrder

GetOrderProgress(w) ==
    [completed |-> w.coord.totalPartsCompleted, scrap |-> w.coord.totalPartsScrap]

CoordinatorIsOrderComplete(w) ==
    /\ w.coord.currentOrder # NoOrder
    /\ w.coord.totalPartsCompleted + w.coord.totalPartsScrap
          >= w.orders[w.coord.currentOrder].Quantity

----------------------------------------------------------------------------
(* Configurations explored, and the inputs of a tick *)

\* config.Config as loaded from the environment, with the explored horizon
Scenarios ==
    { [mode |-> ModeLine, SetupTime |-> LongSetupTime, CycleTime |-> CycleTime,
       ErrorRate |-> 0, ScrapRate |-> 0, OrderMinQty |-> 50, OrderMaxQty |-> 50,
       breaks |-> FALSE, calm |-> 0, ticks |-> MaxTicksQuiet,
       PublishInterval |-> PublishInterval] }
    \cup
    { [mode |-> ModeLine, SetupTime |-> LongSetupTime, CycleTime |-> CycleTime,
       ErrorRate |-> 0, ScrapRate |-> 3, OrderMinQty |-> 50, OrderMaxQty |-> 50,
       breaks |-> TRUE, calm |-> CalmTicksBlocked, ticks |-> MaxTicksBlocked,
       PublishInterval |-> PublishInterval] }
    \cup
    { [mode |-> ModeLine, SetupTime |-> ShortSetupTime, CycleTime |-> CycleTime,
       ErrorRate |-> 2, ScrapRate |-> 3, OrderMinQty |-> q, OrderMaxQty |-> q,
       breaks |-> TRUE, calm |-> 0, ticks |-> MaxTicksDisturbed,
       PublishInterval |-> PublishInterval] : q \in {1, 3} }
    \cup
    { [mode |-> ModeSingle, SetupTime |-> ShortSetupTime, CycleTime |-> CycleTime,
       ErrorRate |-> 2, ScrapRate |-> 3, OrderMinQty |-> 2, OrderMaxQty |-> 2,
       breaks |-> TRUE, calm |-> 0, ticks |-> MaxTicksSingle,
       PublishInterval |-> PublishInterval] }

\* The (code, duration) pairs drawn by triggerError, per machine
DrawnErrors(k) ==
    CASE k = "fm" -> {[code |-> c, dur |-> FormingMinDuration(c) + x] :
                        c \in {"F005"}, x \in {0, 2 * Second}}
      [] k = "pr" -> {[code |-> c, dur |-> PickerMinDuration(c)] : c \in {"P004", "P006"}}
      [] k = "sw" -> {[code |-> c, dur |-> WelderMinDuration(c)] : c \in {"S001", "S006"}}
      [] OTHER -> {[code |-> c, dur |-> WeldingMinDuration(c) + x] :
                        c \in {"E003"}, x \in {0, 2 * Second}}

\* Whether machine k consults its error roll in an Update from w
RollsError(w, k, isBreakTime) ==
    /\ w[k].state = StateRunning
    /\ CASE k = "fm" -> ~isBreakTime /\ w.fm.phase \in {"Form", "Hold"}
         [] k = "pr" -> ~(isBreakTime /\ w.pr.heldPartID = NoPart) /\ w.pr.phase # "Idle"
         [] k = "sw" -> ~(isBreakTime /\ w.sw.phase = "Idle") /\ w.sw.phase = "Weld"
         [] OTHER -> ~isBreakTime /\ w.wr.phase = "Steady"

\* Whether machine k consults its scrap roll in an Update from w at time now
RollsScrap(w, k, now, isBreakTime) ==
    /\ w[k].state = StateRunning
    /\ CASE k = "fm" -> /\ ~isBreakTime
                         /\ w.fm.phase = "Eject"
                         /\ ~IsFull(w.fbuf)
                         /\ now - w.fm.cycleStartedAt >= Fraction(w.cfg.CycleTime, 10)
                               + Fraction(w.cfg.CycleTime, 40) + Fraction(w.cfg.CycleTime, 15)
                               + Fraction(w.cfg.CycleTime, 15)
         [] k = "sw" -> w.sw.phase = "Unload" /\ now - w.sw.cycleStartedAt >= w.cfg.CycleTime
         [] k = "wr" -> /\ ~isBreakTime
                         /\ w.wr.phase = "RampDown"
                         /\ now - w.wr.cycleStartedAt >= w.cfg.CycleTime
         [] OTHER -> FALSE

\* The rate machine k passes to noise.ShouldTrigger: the picker asks the
\* RuntimeConfig, the other machines read their static Config
ErrorRateOf(w, k) == IF k = "pr" THEN GetEffectiveErrorRate(w) ELSE w.cfg.ErrorRate

\* The draws machine k may make in one Update, given the disturbances still allowed
Draws(w, k, now, isBreakTime, b) ==
    LET errs == IF ErrorRateOf(w, k) > 0 /\ b.errors > 0 /\ RollsError(w, k, isBreakTime)
                THEN {[errRoll |-> TRUE, errCode |-> e.code, errDur |-> e.dur] : e \in DrawnErrors(k)}
                     \cup {[errRoll |-> FALSE, errCode |-> "", errDur |-> 0]}
                ELSE {[errRoll |-> FALSE, errCode |-> "", errDur |-> 0]}
        scraps == IF w.cfg.ScrapRate > 0 /\ b.scrap > 0 /\ RollsScrap(w, k, now, isBreakTime)
                  THEN BOOLEAN ELSE {FALSE}
    IN {[errRoll |-> e.errRoll, errCode |-> e.errCode, errDur |-> e.errDur,
         scrapRoll |-> sc, qty |-> q] :
            e \in errs, sc \in scraps, q \in w.cfg.OrderMinQty .. w.cfg.OrderMaxQty}

\* Disturbances used up by a set of draws
Spend(b, ins) ==
    [b EXCEPT !.errors = @ - Cardinality({i \in DOMAIN ins : ins[i].errRoll}),
              !.scrap = @ - Cardinality({i \in DOMAIN ins : ins[i].scrapRoll})]

\* ShiftManager.IsBreakTime over consecutive ticks: brk counts the ticks of the
\* current break window that are left, the latest tick included
BreakLength == 2

\* The disturbances that may be drawn in the tick after time t: none during the
\* first c.calm ticks of the run
Available(b, c, t) ==
    IF t < c.calm * PublishInterval
    THEN [b EXCEPT !.errors = 0, !.scrap = 0, !.breaks = 0]
    ELSE b

NextBreak(b, left) ==
    IF left > 1 THEN {left - 1}
    ELSE IF b.breaks > 0 THEN {0, BreakLength} ELSE {0}

----------------------------------------------------------------------------
(* config.RuntimeConfig and the REST handlers that use it.  cycleTimeScale   *)
(* is held in hundredths (1.0 = 100), the two rates in thousandths           *)

Setters == {"cycleTimeScale", "scrapRate", "errorRate"}

NewRuntimeConfig(c) ==
    [cycleTimeScale |-> 100, scrapRate |-> c.ScrapRate * 10, errorRate |-> c.ErrorRate * 10,
     baseCycleTime |-> c.CycleTime, baseSetupTime |-> c.SetupTime,
     writer |-> FALSE, readers |-> 0]

\* The three adjustable fields of a RuntimeConfig
Fields(r) == [k \in Setters |-> r[k]]

SetterRejectsBoundary(k, v) ==
    CASE k = "cycleTimeScale" -> v <= 10 \/ v >= 1000
      [] k = "scrapRate" -> v <= 0 \/ v >= 500
      [] OTHER -> v <= 0 \/ v >= 200

\* The range check that opens SetCycleTimeScale, SetScrapRate and SetErrorRate
SetterRejects(k, v) ==
    CASE k = "cycleTimeScale" -> v < 10 \/ v > 1000
      [] k = "scrapRate" -> v < 0 \/ v > 500
      [] OTHER -> v < 0 \/ v > 200

\* RuntimeConfig.Snapshot, as computed under the read lock
Snapshot(r) ==
    [CycleTimeScale |-> r.cycleTimeScale,
     BaseCycleTime |-> r.baseCycleTime,
     EffectiveCycleTime |-> (r.baseCycleTime * 100) \div r.cycleTimeScale,
     BaseSetupTime |-> r.baseSetupTime,
     EffectiveSetupTime |-> (r.baseSetupTime * 100) \div r.cycleTimeScale,
     ScrapRate |-> r.scrapRate,
     ErrorRate |-> r.errorRate]

NoSnapshot ==
    [CycleTimeScale |-> 0, BaseCycleTime |-> 0, EffectiveCycleTime |-> 0,
     BaseSetupTime |-> 0, EffectiveSetupTime |-> 0, ScrapRate |-> 0, ErrorRate |-> 0]

\* A field of ConfigUpdateRequest: a nil pointer, or a value
NoValue == [present |-> FALSE, v |-> 0]

Value(x) == [present |-> TRUE, v |-> x]

\* The request bodies explored: every field absent, at a bound of its range,
\* or just outside it
Bodies ==
    [cycleTimeScale : {NoValue} \cup {Value(x) : x \in {9, 10, 1000, 1001}},
     scrapRate : {NoValue} \cup {Value(x) : x \in {-1, 0, 500, 501}},
     errorRate : {NoValue} \cup {Value(x) : x \in {-1, 0, 200, 201}}]

\* The handler goroutine between two requests, n requests served
PostIdle(n) ==
    [pc |-> "idle", stage |-> "check", served |-> n, status |-> 0,
     body |-> [k \in Setters |-> NoValue], result |-> [k \in Setters |-> "none"],
     response |-> NoSnapshot]

\* The order in which handleConfigUpdate applies the fields
NextField(k) ==
    CASE k = "cycleTimeScale" -> "scrapRate"
      [] k = "scrapRate" -> "errorRate"
      [] OTHER -> "respond"

----------------------------------------------------------------------------
(* A core.PartBuffer used through its methods alone *)

\* No buffer constructed yet.  pushed and popped list the parts the buffer
\* accepted and the parts it returned, in call order
NoBench ==
    [made |-> FALSE, pb |-> NewPartBuffer(0), calls |-> 0, nextID |-> 1,
     call |-> "none", arg |-> NoPart, ok |-> FALSE, part |-> NoPart,
     pushed |-> <<>>, popped |-> <<>>]

----------------------------------------------------------------------------
(* erp.ShiftManager.  A time is a number of hours since midnight of day 0, *)
(* in the manager's location; only the hour and the date of a time matter  *)
(* to the manager                                                          *)

ShiftStatusActive == "ACTIVE"
ShiftStatusEnded == "ENDED"

ShiftModels == {"3-shift", "2-shift", "1-shift"}

\* initializeSchedules
Schedules(model) ==
    CASE model = "3-shift" ->
            << [Name |-> "Morning", Start |-> 6, End |-> 14],
               [Name |-> "Afternoon", Start |-> 14, End |-> 22],
               [Name |-> "Night", Start |-> 22, End |-> 6] >>
      [] model = "2-shift" ->
            << [Name |-> "Day", Start |-> 6, End |-> 14],
               [Name |-> "Late", Start |-> 14, End |-> 22] >>
      [] OTHER ->
            << [Name |-> "Day", Start |-> 8, End |-> 17] >>

HoursPerDay == 24

Hour(now) == now % HoursPerDay

Date(now) == now \div HoursPerDay

\* sched.Name[:1]
FirstLetter(name) ==
    CASE name = "Morning" -> "M"
      [] name = "Afternoon" -> "A"
      [] name = "Night" -> "N"
      [] name = "Day" -> "D"
      [] OTHER -> "L"

ShiftIDWithoutDate(startDate, sched) == [date |-> 0, letter |-> FirstLetter(sched.Name)]

\* fmt.Sprintf("SHIFT-%s-%s", startTime.Format("2006-01-02"), sched.Name[:1])
ShiftID(startDate, sched) == [date |-> startDate, letter |-> FirstLetter(sched.Name)]

createShift(now, sched, shiftNumber) ==
    LET night == sched.End < sched.Start
        startDate == IF night /\ Hour(now) < sched.End THEN Date(now) - 1 ELSE Date(now)
        endDate == IF night /\ ~(Hour(now) < sched.End) THEN Date(now) + 1 ELSE Date(now)
    IN [ShiftID |-> ShiftID(startDate, sched),
        ShiftName |-> sched.Name,
        ShiftNumber |-> shiftNumber,
        StartTime |-> startDate * HoursPerDay + sched.Start,
        EndTime |-> endDate * HoursPerDay + sched.End,
        Status |-> ShiftStatusActive]

inShift(sched, hour) ==
    IF sched.End > sched.Start
    THEN hour >= sched.Start /\ hour < sched.End
    ELSE hour >= sched.Start \/ hour < sched.End

GetCurrentShift(model, now) ==
    LET scheds == Schedules(model)
        hits == {i \in DOMAIN scheds : inShift(scheds[i], Hour(now))}
    IN IF hits # {}
       THEN LET i == CHOOSE j \in hits : \A l \in hits : j <= l
            IN createShift(now, scheds[i], i)
       ELSE createShift(now, scheds[1], 1)

\* A nil *Shift
NoShift == 0

\* No ShiftManager constructed yet.  heap holds the Shift objects handed out,
\* a *Shift is an index into it; currentShift is the manager's field, held the
\* shift the state machine was given by SetCurrentShift
NoShiftManager ==
    [made |-> FALSE, model |-> "1-shift", now |-> 0, calls |-> 0, heap |-> <<>>,
     currentShift |-> NoShift, held |-> NoShift,
     ret |-> [shift |-> NoShift, changed |-> FALSE]]

\* HasShiftChanged(now) on manager m: the manager after the call, with the
\* returned pair in ret
HasShiftChanged(m, now) ==
    LET newShift == GetCurrentShift(m.model, now)
        ref == Len(m.heap) + 1
    IN IF m.currentShift = NoShift
       THEN [m EXCEPT !.heap = Append(@, newShift), !.currentShift = ref,
                      !.ret = [shift |-> ref, changed |-> TRUE]]
       ELSE IF m.heap[m.currentShift].ShiftID # newShift.ShiftID
       THEN [m EXCEPT !.heap = Append([@ EXCEPT ![m.currentShift].Status = ShiftStatusEnded],
                                      newShift),
                      !.currentShift = ref,
                      !.ret = [shift |-> ref, changed |-> TRUE]]
       ELSE [m EXCEPT !.ret = [shift |-> NoShift, changed |-> FALSE]]

----------------------------------------------------------------------------
(* Drivers: cmd/simulator main (single robot) and runProductionLine *)

GenerateOrder(w, qty) == [w EXCEPT !.orders = Append(@, NewOrder(qty))]

RunnerAddOrder(w, order) == SetOrder(w, order)

\* The order bookkeeping of one line-driver tick, after runner.Update
LineOrderUpdate(w, now, qty) ==
    LET w1 == IF GetCurrentOrder(w) = NoOrder
              THEN LET g == GenerateOrder(w, qty)
                   IN [RunnerAddOrder(g, Len(g.orders)) EXCEPT !.drv.lastCompletedCount = 0]
              ELSE w
        order == GetCurrentOrder(w1)
        completed == GetOrderProgress(w1).completed
    IN IF order # NoOrder
          /\ (completed # w1.drv.lastCompletedCount
               \/ now - w1.drv.lastOrderUpdate >= OrderUpdatePeriod)
       THEN LET w2 == [w1 EXCEPT !.orders[order].QuantityCompleted = completed]
                w3 == IF CoordinatorIsOrderComplete(w2)
                      THEN LET g == GenerateOrder(
                                      [w2 EXCEPT !.orders[order].Status = OrderStatusCompleted],
                                      qty)
                           IN RunnerAddOrder(g, Len(g.orders))
                      ELSE w2
            IN [w3 EXCEPT !.drv.lastOrderUpdate = now, !.drv.lastCompletedCount = completed]
       ELSE w1

World ==
    [cfg |-> cfg, clock |-> clock, fm |-> fm, pr |-> pr, sw |-> sw, fbuf |-> fbuf,
     wbuf |-> wbuf, orders |-> orders, coord |-> coord, drv |-> drv, wr |-> wr, rc |-> rc]

Becomes(w) ==
    /\ cfg' = w.cfg
    /\ clock' = w.clock
    /\ fm' = w.fm
    /\ pr' = w.pr
    /\ sw' = w.sw
    /\ fbuf' = w.fbuf
    /\ wbuf' = w.wbuf
    /\ orders' = w.orders
    /\ coord' = w.coord
    /\ drv' = w.drv
    /\ wr' = w.wr

\* GenerateData of machine k: the state and production values among the node values
MachineData(w, k) ==
    [State |-> w[k].state, GoodParts |-> w[k].goodParts, ScrapParts |-> w[k].scrapParts,
     CurrentOrderID |-> w[k].currentOrder, ErrorCode |-> w[k].currentError.code]

\* The values written by UpdateNamespaceValues (line) or UpdateValues (single robot)
Published(w) ==
    [k \in IF w.cfg.mode = ModeLine THEN {"fm", "pr", "sw"} ELSE {"wr"} |-> MachineData(w, k)]

\* The state after construction and before the first tick
Constructed(c) ==
    [cfg |-> c, clock |-> 0,
     fm |-> NewFormingMachine, pr |-> NewPickerRobot, sw |-> NewSpotWelder,
     fbuf |-> NewPartBuffer(FormingOutputBufferCapacity),
     wbuf |-> NewPartBuffer(WelderInputBufferCapacity),
     orders |-> <<>>, coord |-> NewProductionLineCoordinator,
     drv |-> [lastOrderUpdate |-> 0 - OrderUpdatePeriod, lastCompletedCount |-> 0],
     wr |-> NewWeldingRobot, rc |-> NewRuntimeConfig(c)]

InitialOrders == 3

Started(c) ==
    IF c.mode = ModeLine
    THEN LET g == GenerateOrder(Constructed(c), c.OrderMinQty)
         IN CoordinatorStart(RunnerAddOrder(g, 1))
    ELSE LET g1 == GenerateOrder(Constructed(c), c.OrderMinQty)
             g2 == GenerateOrder(g1, c.OrderMinQty)
             g3 == GenerateOrder(g2, c.OrderMinQty)
         IN AddOrder(AddOrder(AddOrder(g3, "wr", 1), "wr", 2), "wr", InitialOrders)

\* The driver in its tick loop: machines started, HTTP and OPC UA servers
\* serving, no shutdown context yet
InLoop ==
    [pc |-> "loop", machines |-> "started", http |-> "serving", opcua |-> "serving",
     deadline |-> 0, panics |-> 0, logged |-> 0]

\* The state in which the tick loop is entered, for a configuration of S
InitFrom(S) ==
    \E c \in S :
        /\ cfg = c
        /\ clock = Started(c).clock
        /\ fm = Started(c).fm
        /\ pr = Started(c).pr
        /\ sw = Started(c).sw
        /\ fbuf = Started(c).fbuf
        /\ wbuf = Started(c).wbuf
        /\ orders = Started(c).orders
        /\ coord = Started(c).coord
        /\ drv = Started(c).drv
        /\ wr = Started(c).wr
        /\ brk = 0
        /\ req = NoRequest
        /\ partOrderID = <<>>
        /\ weldedParts = <<>>
        /\ opcua = Published(Started(c))
        /\ simPc = "wait"
        /\ obs = [pc |-> "idle", served |-> 0, unsynchronised |-> FALSE]
        /\ erp = [pending |-> IF c.mode = ModeLine THEN {1} ELSE {}, unsynchronised |-> FALSE]
        /\ rc = NewRuntimeConfig(c)
        /\ post = PostIdle(0)
        /\ get = [pc |-> "idle", served |-> 0, snap |-> NoSnapshot]
        /\ whole = {Fields(NewRuntimeConfig(c))}
        /\ bench = NoBench
        /\ sm = NoShiftManager
        /\ life = InLoop
        /\ budget = [errors |-> IF c.ErrorRate > 0 THEN MaxErrors ELSE 0,
                      scrap |-> IF c.ScrapRate > 0 THEN MaxScrapRolls ELSE 0,
                      breaks |-> IF c.breaks THEN MaxBreaks ELSE 0,
                      shifts |-> IF c.mode = ModeSingle THEN MaxShiftChanges ELSE 0]

Init == InitFrom(Scenarios)

\* The Part objects after a forming Update from w to w1: ejectPart creates a Part
\* carrying the forming machine's current OrderID when it pushes to the buffer
PartsCreated(po, w, w1) ==
    IF Len(w1.fbuf.q) > Len(w.fbuf.q)
    THEN po @@ (w.fm.currentPartID :> w.fm.currentOrder)
    ELSE po

\* The parts the welder has let go of after a welder Update from w to w1, each
\* with Part.IsScrap as the welder left it
PartsWelded(wp, w, w1) ==
    IF w.sw.currentPartID # NoPart /\ w1.sw.currentPartID # w.sw.currentPartID
    THEN Append(wp, [id |-> w.sw.currentPartID,
                     isScrap |-> w1.sw.scrapParts > w.sw.scrapParts])
    ELSE wp

\* One iteration of runProductionLine's loop
LineTick ==
    /\ cfg.mode = ModeLine
    /\ clock < cfg.ticks * cfg.PublishInterval
    /\ \E left \in NextBreak(Available(budget, cfg, clock), brk) :
        LET now == clock + cfg.PublishInterval
            isBreakTime == left > 0
            avail == Available(budget, cfg, clock)
            w0 == [World EXCEPT !.clock = now]
        IN \E i1 \in Draws(w0, "fm", now, isBreakTime, avail) :
             LET w1 == FormingUpdate(updateLineState(w0), now, isBreakTime, i1)
             IN \E i2 \in Draws(w1, "pr", now, isBreakTime, avail) :
                  LET w2 == PickerUpdate(w1, now, isBreakTime, i2)
                  IN \E i3 \in Draws(w2, "sw", now, isBreakTime, avail) :
                       LET in == [fm |-> i1, pr |-> i2, sw |-> i3]
                           b == Spend(budget, in)
                       IN /\ b.errors >= 0
                          /\ b.scrap >= 0
                          /\ Becomes(LineOrderUpdate(CoordinatorUpdate(w0, now, isBreakTime, in),
                                                     now, i1.qty))
                          /\ brk' = left
                          /\ budget' = [b EXCEPT !.breaks =
                                            IF left = BreakLength /\ brk = 0 THEN @ - 1 ELSE @]
                          /\ req' = req
                          /\ opcua' = Published(CoordinatorUpdate(w0, now, isBreakTime, in))
                          /\ UNCHANGED <<simPc, obs, erp, rc, post, get, whole, bench, sm, life>>
                          /\ partOrderID' = PartsCreated(partOrderID, w0, w1)
                          /\ weldedParts' = PartsWelded(weldedParts, w2,
                                                        WelderUpdate(w2, now, isBreakTime, i3))

\* One iteration of the single-robot loop in main
SingleTick ==
    /\ cfg.mode = ModeSingle
    /\ clock < cfg.ticks * cfg.PublishInterval
    /\ \E left \in NextBreak(budget, brk),
          changed \in IF budget.shifts > 0 THEN BOOLEAN ELSE {FALSE} :
        LET now == clock + cfg.PublishInterval
            isBreakTime == left > 0
            w0 == [World EXCEPT !.clock = now]
            w1 == IF changed THEN ResetCounters(w0, "wr") ELSE w0
        IN \E i \in Draws(w1, "wr", now, isBreakTime, budget) :
             /\ Becomes(WeldingUpdate(w1, now, isBreakTime, i))
             /\ brk' = left
             /\ budget' = [Spend(budget, [wr |-> i]) EXCEPT
                               !.breaks = IF left = BreakLength /\ brk = 0 THEN @ - 1 ELSE @,
                               !.shifts = IF changed THEN @ - 1 ELSE @]
             /\ req' = req
             /\ opcua' = Published(WeldingUpdate(w1, now, isBreakTime, i))
             /\ UNCHANGED <<simPc, obs, erp, rc, post, get, whole, bench, sm, life>>
             /\ UNCHANGED <<partOrderID, weldedParts>>

Next == LineTick \/ SingleTick

Spec == Init /\ [][Next]_vars

\* A direct call of the exported TransitionTo on machine k
RequestTransition(k, newState) ==
    /\ req' = [machine |-> k, from |-> World[k].state, to |-> newState]
    /\ Becomes(TransitionTo(World, k, newState))
    /\ UNCHANGED <<brk, budget, partOrderID, weldedParts, opcua, simPc, obs, erp,
                   rc, post, get, whole, bench, sm, life>>

NextRequest == \E k \in {"fm", "pr", "sw", "wr"}, s \in MachineStates : RequestTransition(k, s)

SpecRequest == Init /\ [][NextRequest]_vars

----------------------------------------------------------------------------
(* The line driver's tick step by step, with the threads that run beside it: *)
(* the HTTP server's handler goroutines and the ERP push goroutines          *)

MaxTicksObserved == 8
MaxRequests == 2

\* The simulation thread is inside a tick: in coordinator.Update, holding the
\* coordinator's mutex ("fm", "pr", "sw", "agg"), or in the order bookkeeping
\* that follows it ("orders")
InTick == simPc # "wait"

\* ticker fires: shift and break are looked up, coordinator.Update takes c.mu
\* and recomputes the line state
SimBegin ==
    /\ simPc = "wait"
    /\ cfg.mode = ModeLine
    /\ cfg.calm = 0
    /\ clock < MaxTicksObserved * PublishInterval
    /\ \E left \in NextBreak(budget, brk) :
        /\ Becomes(updateLineState([World EXCEPT !.clock = clock + PublishInterval]))
        /\ brk' = left
        /\ budget' = [budget EXCEPT !.breaks =
                          IF left = BreakLength /\ brk = 0 THEN @ - 1 ELSE @]
    /\ simPc' = "fm"
    /\ UNCHANGED <<req, partOrderID, weldedParts, opcua, obs, erp, rc, post, get, whole, bench, sm, life>>

\* formingMachine.Update, pickerRobot.Update, spotWelder.Update, under c.mu
SimMachine(k) ==
    /\ simPc = k
    /\ \E i \in Draws(World, k, clock, brk > 0, budget) :
        LET w1 == CASE k = "fm" -> FormingUpdate(World, clock, brk > 0, i)
                    [] k = "pr" -> PickerUpdate(World, clock, brk > 0, i)
                    [] OTHER -> WelderUpdate(World, clock, brk > 0, i)
        IN /\ Becomes(w1)
           /\ budget' = Spend(budget, [m |-> i])
           /\ partOrderID' = IF k = "fm" THEN PartsCreated(partOrderID, World, w1)
                                          ELSE partOrderID
           /\ weldedParts' = IF k = "sw" THEN PartsWelded(weldedParts, World, w1)
                                          ELSE weldedParts
    /\ simPc' = CASE k = "fm" -> "pr" [] k = "pr" -> "sw" [] OTHER -> "agg"
    /\ UNCHANGED <<brk, req, opcua, obs, erp, rc, post, get, whole, bench, sm, life>>

\* updateCounters, updateErrorTracking; c.mu is released; the OPC UA values are written
SimAggregate ==
    /\ simPc = "agg"
    /\ Becomes(updateErrorTracking(updateCounters(World)))
    /\ opcua' = Published(updateErrorTracking(updateCounters(World)))
    /\ simPc' = "orders"
    /\ UNCHANGED <<brk, req, budget, partOrderID, weldedParts, obs, erp, rc, post, get, whole, bench, sm, life>>

\* The orders handed to "go erpClient.SendOrderUpdate" by the order bookkeeping
\* that takes w to w1
SentOrders(w, w1) ==
    {o \in DOMAIN w1.orders : o > Len(w.orders)}
        \cup (IF w1.drv.lastOrderUpdate = w1.clock /\ w.coord.currentOrder # NoOrder
              THEN {w.coord.currentOrder} ELSE {})

\* the driver's order bookkeeping, which ends the tick
SimOrders ==
    /\ simPc = "orders"
    /\ \E q \in cfg.OrderMinQty .. cfg.OrderMaxQty :
        LET w1 == LineOrderUpdate(World, clock, q)
        IN /\ Becomes(w1)
           /\ erp' = [erp EXCEPT !.pending = @ \cup SentOrders(World, w1)]
    /\ simPc' = "wait"
    /\ UNCHANGED <<brk, req, budget, partOrderID, weldedParts, opcua, obs,
                   rc, post, get, whole, bench, sm, life>>

\* GET /api/machines arrives: the server starts HandleMachines on its own goroutine
ObserverRequest ==
    /\ obs.pc = "idle"
    /\ obs.served < MaxRequests
    /\ cfg.mode = ModeLine
    /\ cfg.calm = 0
    /\ obs' = [obs EXCEPT !.pc = "fm"]
    /\ UNCHANGED <<cfg, clock, brk, fm, pr, sw, fbuf, wbuf, orders, coord, drv, wr, req,
                   budget, partOrderID, weldedParts, opcua, simPc, erp, rc, post, get, whole, bench, sm, life>>

\* HandleMachines reads machine k's State, GetCounters and GetCycleProgress; it
\* takes no lock, so the read is unsynchronised when it falls inside a tick
ObserverRead(k) ==
    /\ obs.pc = k
    /\ obs' = [pc |-> CASE k = "fm" -> "pr" [] k = "pr" -> "sw" [] OTHER -> "idle",
               served |-> IF k = "sw" THEN obs.served + 1 ELSE obs.served,
               unsynchronised |-> obs.unsynchronised \/ InTick]
    /\ UNCHANGED <<cfg, clock, brk, fm, pr, sw, fbuf, wbuf, orders, coord, drv, wr, req,
                   budget, partOrderID, weldedParts, opcua, simPc, erp, rc, post, get, whole, bench, sm, life>>

\* A push task marshals the order object it was given a pointer to; it takes
\* no lock either
ErpMarshal(o) ==
    /\ o \in erp.pending
    /\ erp' = [pending |-> erp.pending \ {o},
               unsynchronised |-> erp.unsynchronised \/ InTick]
    /\ UNCHANGED <<cfg, clock, brk, fm, pr, sw, fbuf, wbuf, orders, coord, drv, wr, req,
                   budget, partOrderID, weldedParts, opcua, simPc, obs, rc, post, get, whole, bench, sm, life>>

NextObserved ==
    \/ SimBegin
    \/ \E k \in {"fm", "pr", "sw"} : SimMachine(k)
    \/ SimAggregate
    \/ SimOrders
    \/ ObserverRequest
    \/ \E k \in {"fm", "pr", "sw"} : ObserverRead(k)
    \/ \E o \in erp.pending : ErpMarshal(o)

SpecObserved == Init /\ [][NextObserved]_vars

----------------------------------------------------------------------------
(* POST /api/config and GET /api/config against the RuntimeConfig *)

MaxPosts == 1
MaxGets == 1

\* The config endpoints exist in production-line mode only
ConfigServed == cfg.mode = ModeLine /\ cfg.calm = 0 /\ cfg.OrderMinQty = 1

\* The fields of r after every value present in body has been set
Applied(r, body) == [k \in Setters |-> IF body[k].present THEN body[k].v ELSE r[k]]

\* handleConfigUpdate has decoded a body.  As one update it takes the
\* configuration from its present state to the state with all its values set,
\* or, if it is answered with 400, leaves it as it is
PostRequest ==
    /\ post.pc = "idle"
    /\ post.served < MaxPosts
    /\ ConfigServed
    /\ \E body \in Bodies :
        /\ post' = [PostIdle(post.served) EXCEPT !.pc = "cycleTimeScale", !.body = body]
        /\ whole' = whole \cup
              {Fields(rc),
               IF \E k \in Setters : body[k].present /\ SetterRejects(k, body[k].v)
               THEN Fields(rc) ELSE Applied(Fields(rc), body)}
    /\ UNCHANGED <<cfg, clock, brk, fm, pr, sw, fbuf, wbuf, orders, coord, drv, wr, req,
                   budget, partOrderID, weldedParts, opcua, simPc, obs, erp, rc, get, bench, sm, life>>

\* "if req.X != nil" and the range check of setter k; a rejected value ends
\* the request with 400
SetterCheck(k) ==
    /\ post.pc = k
    /\ post.stage = "check"
    /\ post' = IF ~post.body[k].present
               THEN [post EXCEPT !.pc = NextField(k)]
               ELSE IF SetterRejects(k, post.body[k].v)
               THEN [post EXCEPT !.pc = "idle", !.served = @ + 1, !.status = 400,
                                 !.result[k] = "error"]
               ELSE [post EXCEPT !.stage = "lock"]
    /\ UNCHANGED <<cfg, clock, brk, fm, pr, sw, fbuf, wbuf, orders, coord, drv, wr, req,
                   budget, partOrderID, weldedParts, opcua, simPc, obs, erp, rc, get, whole, bench, sm, life>>

\* rc.mu.Lock()
SetterLock(k) ==
    /\ post.pc = k
    /\ post.stage = "lock"
    /\ ~rc.writer
    /\ rc.readers = 0
    /\ rc' = [rc EXCEPT !.writer = TRUE]
    /\ post' = [post EXCEPT !.stage = "locked"]
    /\ UNCHANGED <<cfg, clock, brk, fm, pr, sw, fbuf, wbuf, orders, coord, drv, wr, req,
                   budget, partOrderID, weldedParts, opcua, simPc, obs, erp, get, whole, bench, sm, life>>

\* the assignment, the deferred Unlock and "return nil"
SetterWrite(k) ==
    /\ post.pc = k
    /\ post.stage = "locked"
    /\ rc' = [rc EXCEPT ![k] = post.body[k].v, !.writer = FALSE]
    /\ post' = [post EXCEPT !.pc = NextField(k), !.stage = "check", !.result[k] = "ok"]
    /\ UNCHANGED <<cfg, clock, brk, fm, pr, sw, fbuf, wbuf, orders, coord, drv, wr, req,
                   budget, partOrderID, weldedParts, opcua, simPc, obs, erp, get, whole, bench, sm, life>>

\* "Return updated config": Snapshot under the read lock, 200
PostRespond ==
    /\ post.pc = "respond"
    /\ ~rc.writer
    /\ post' = [post EXCEPT !.pc = "idle", !.served = @ + 1, !.status = 200,
                            !.response = Snapshot(rc)]
    /\ UNCHANGED <<cfg, clock, brk, fm, pr, sw, fbuf, wbuf, orders, coord, drv, wr, req,
                   budget, partOrderID, weldedParts, opcua, simPc, obs, erp, rc, get, whole, bench, sm, life>>

\* GET /api/config arrives
GetRequest ==
    /\ get.pc = "idle"
    /\ get.served < MaxGets
    /\ ConfigServed
    /\ get' = [get EXCEPT !.pc = "rlock"]
    /\ UNCHANGED <<cfg, clock, brk, fm, pr, sw, fbuf, wbuf, orders, coord, drv, wr, req,
                   budget, partOrderID, weldedParts, opcua, simPc, obs, erp, rc, post, whole, bench, sm, life>>

\* Snapshot: rc.mu.RLock()
GetRLock ==
    /\ get.pc = "rlock"
    /\ ~rc.writer
    /\ rc' = [rc EXCEPT !.readers = @ + 1]
    /\ get' = [get EXCEPT !.pc = "read"]
    /\ UNCHANGED <<cfg, clock, brk, fm, pr, sw, fbuf, wbuf, orders, coord, drv, wr, req,
                   budget, partOrderID, weldedParts, opcua, simPc, obs, erp, post, whole, bench, sm, life>>

\* Snapshot: the struct is filled in
GetRead ==
    /\ get.pc = "read"
    /\ get' = [get EXCEPT !.pc = "runlock", !.snap = Snapshot(rc)]
    /\ UNCHANGED <<cfg, clock, brk, fm, pr, sw, fbuf, wbuf, orders, coord, drv, wr, req,
                   budget, partOrderID, weldedParts, opcua, simPc, obs, erp, rc, post, whole, bench, sm, life>>

\* Snapshot: the deferred RUnlock, and the response
GetRUnlock ==
    /\ get.pc = "runlock"
    /\ rc' = [rc EXCEPT !.readers = @ - 1]
    /\ get' = [get EXCEPT !.pc = "idle", !.served = @ + 1]
    /\ UNCHANGED <<cfg, clock, brk, fm, pr, sw, fbuf, wbuf, orders, coord, drv, wr, req,
                   budget, partOrderID, weldedParts, opcua, simPc, obs, erp, post, whole, bench, sm, life>>

NextConfig ==
    \/ PostRequest
    \/ \E k \in Setters : SetterCheck(k)
    \/ \E k \in Setters : SetterLock(k)
    \/ \E k \in Setters : SetterWrite(k)
    \/ PostRespond
    \/ GetRequest
    \/ GetRLock
    \/ GetRead
    \/ GetRUnlock

SpecConfig == Init /\ [][NextConfig]_vars

----------------------------------------------------------------------------
(* The production line running while its configuration is changed *)

MaxTicksRuntime == 12

\* The request bodies explored while the line runs
RuntimeBodies ==
    [cycleTimeScale : {NoValue, Value(10), Value(1000)},
     scrapRate : {NoValue, Value(0)},
     errorRate : {NoValue, Value(0), Value(201)}]

\* The fields handleConfigUpdate reaches before field k, k included
UpTo(k) ==
    CASE k = "cycleTimeScale" -> {"cycleTimeScale"}
      [] k = "scrapRate" -> {"cycleTimeScale", "scrapRate"}
      [] OTHER -> Setters

\* The RuntimeConfig after handleConfigUpdate has run on body: every value
\* present is set in turn, up to the first one its setter rejects
handleConfigUpdate(r, body) ==
    [f \in DOMAIN r |->
        IF /\ f \in Setters
           /\ body[f].present
           /\ \A j \in UpTo(f) : ~(body[j].present /\ SetterRejects(j, body[j].v))
        THEN body[f].v
        ELSE r[f]]

\* POST /api/config between two ticks
ConfigUpdate ==
    /\ ConfigServed
    /\ post.pc = "idle"
    /\ post.served < MaxPosts
    /\ \E body \in RuntimeBodies :
        /\ rc' = handleConfigUpdate(rc, body)
        /\ post' = [PostIdle(post.served + 1) EXCEPT
                        !.body = body,
                        !.status = IF \E k \in Setters :
                                        body[k].present /\ SetterRejects(k, body[k].v)
                                   THEN 400 ELSE 200,
                        !.response = Snapshot(handleConfigUpdate(rc, body))]
    /\ UNCHANGED <<cfg, clock, brk, fm, pr, sw, fbuf, wbuf, orders, coord, drv, wr, req,
                   budget, partOrderID, weldedParts, opcua, simPc, obs, erp, get, whole, bench, sm, life>>

\* An iteration of runProductionLine's loop within the horizon explored here
RuntimeTick ==
    /\ ConfigServed
    /\ clock < MaxTicksRuntime * PublishInterval
    /\ LineTick

NextRuntime == ConfigUpdate \/ RuntimeTick

SpecRuntime == Init /\ [][NextRuntime]_vars

----------------------------------------------------------------------------
(* Direct calls on a PartBuffer *)

MaxBenchCalls == 7

\* NewPartBuffer(capacity), with the capacities the line uses
BenchNew ==
    /\ ~bench.made
    /\ \E capacity \in {FormingOutputBufferCapacity, WelderInputBufferCapacity} :
        bench' = [NoBench EXCEPT !.made = TRUE, !.pb = NewPartBuffer(capacity)]
    /\ UNCHANGED <<cfg, clock, brk, fm, pr, sw, fbuf, wbuf, orders, coord, drv, wr, req,
                   budget, partOrderID, weldedParts, opcua, simPc, obs, erp, rc, post, get,
                   whole, sm, life>>

\* pb.Push(part) with a Part not pushed before
BenchPush ==
    /\ bench.made
    /\ bench.calls < MaxBenchCalls
    /\ LET r == Push(bench.pb, bench.nextID)
       IN bench' = [bench EXCEPT !.pb = r.pb, !.calls = @ + 1, !.nextID = @ + 1,
                                 !.call = "Push", !.arg = bench.nextID, !.ok = r.ok,
                                 !.part = NoPart,
                                 !.pushed = IF r.ok THEN Append(@, bench.nextID) ELSE @]
    /\ UNCHANGED <<cfg, clock, brk, fm, pr, sw, fbuf, wbuf, orders, coord, drv, wr, req,
                   budget, partOrderID, weldedParts, opcua, simPc, obs, erp, rc, post, get,
                   whole, sm, life>>

\* pb.Pop()
BenchPop ==
    /\ bench.made
    /\ bench.calls < MaxBenchCalls
    /\ LET r == Pop(bench.pb)
       IN bench' = [bench EXCEPT !.pb = r.pb, !.calls = @ + 1,
                                 !.call = "Pop", !.arg = NoPart, !.ok = FALSE,
                                 !.part = r.part,
                                 !.popped = IF r.part # NoPart THEN Append(@, r.part) ELSE @]
    /\ UNCHANGED <<cfg, clock, brk, fm, pr, sw, fbuf, wbuf, orders, coord, drv, wr, req,
                   budget, partOrderID, weldedParts, opcua, simPc, obs, erp, rc, post, get,
                   whole, sm, life>>

NextBuffer == BenchNew \/ BenchPush \/ BenchPop

SpecBuffer == Init /\ [][NextBuffer]_vars

----------------------------------------------------------------------------
(* The line with a caller that pops from its buffers.  The buffers are     *)
(* handed out by FormingMachine.GetOutputBuffer and                        *)
(* SpotWelder.GetInputBuffer, and PartBuffer.Pop is exported               *)

MaxDirectPops == 1

DirectServed == cfg.mode = ModeLine /\ cfg.calm = 0 /\ cfg.OrderMinQty = 3

\* A Pop on the forming output buffer between two ticks
DirectPopForming ==
    /\ DirectServed
    /\ ~bench.made
    /\ bench.calls < MaxDirectPops
    /\ LET r == Pop(fbuf)
       IN /\ fbuf' = r.pb
          /\ bench' = [bench EXCEPT !.calls = @ + 1, !.call = "Pop", !.part = r.part]
    /\ UNCHANGED <<cfg, clock, brk, fm, pr, sw, wbuf, orders, coord, drv, wr, req,
                   budget, partOrderID, weldedParts, opcua, simPc, obs, erp, rc, post, get,
                   whole, sm, life>>

\* A Pop on the welder input buffer between two ticks
DirectPopWelder ==
    /\ DirectServed
    /\ ~bench.made
    /\ bench.calls < MaxDirectPops
    /\ LET r == Pop(wbuf)
       IN /\ wbuf' = r.pb
          /\ bench' = [bench EXCEPT !.calls = @ + 1, !.call = "Pop", !.part = r.part]
    /\ UNCHANGED <<cfg, clock, brk, fm, pr, sw, fbuf, orders, coord, drv, wr, req,
                   budget, partOrderID, weldedParts, opcua, simPc, obs, erp, rc, post, get,
                   whole, sm, life>>

\* An iteration of runProductionLine's loop in which no error and no scrap
\* is rolled
DirectTick ==
    /\ DirectServed
    /\ LineTick
    /\ budget'.errors = budget.errors
    /\ budget'.scrap = budget.scrap

NextDirect == DirectPopForming \/ DirectPopWelder \/ DirectTick

SpecDirect == Init /\ [][NextDirect]_vars

----------------------------------------------------------------------------
(* The shift handling of main: the shift is initialised before the loop,   *)
(* and every tick asks the ShiftManager whether the shift has changed      *)

MaxShiftCalls == 12

\* The hours of the day at which a process is started
StartHours == {5, 7, 13, 21, 23}

\* NewShiftManager, then "Initialize shift": GetCurrentShift and
\* stateMachine.SetCurrentShift
ShiftStart ==
    /\ ~sm.made
    /\ \E model \in ShiftModels, now \in StartHours :
        sm' = [NoShiftManager EXCEPT !.made = TRUE, !.model = model, !.now = now,
                                     !.heap = <<GetCurrentShift(model, now)>>,
                                     !.held = 1]
    /\ UNCHANGED <<cfg, clock, brk, fm, pr, sw, fbuf, wbuf, orders, coord, drv, wr, req,
                   budget, partOrderID, weldedParts, opcua, simPc, obs, erp, rc, post, get,
                   whole, bench, life>>

\* "Check for shift change" in a tick that comes d hours after the latest
\* reading of the time (0: within the same hour)
ShiftTick ==
    /\ sm.made
    /\ sm.calls < MaxShiftCalls
    /\ \E d \in {0, 1, 2} :
        LET m == HasShiftChanged(sm, sm.now + d)
        IN sm' = [m EXCEPT !.now = sm.now + d, !.calls = @ + 1,
                           !.held = IF m.ret.changed THEN m.ret.shift ELSE @]
    /\ UNCHANGED <<cfg, clock, brk, fm, pr, sw, fbuf, wbuf, orders, coord, drv, wr, req,
                   budget, partOrderID, weldedParts, opcua, simPc, obs, erp, rc, post, get,
                   whole, bench, life>>

NextShift == ShiftStart \/ ShiftTick

SpecShift == Init /\ [][NextShift]_vars

----------------------------------------------------------------------------
(* The tick loops at PUBLISH_INTERVAL = 1 s, the default, without disturbances *)

MaxTicksFast == 150
MaxTicksFastSingle == 40

\* The welding robot's cycle and setup times in the single-robot runs at 1 s
FastCycleTime == 10 * Second
FastSetupTime == 5 * Second

FastScenarios ==
    { [mode |-> ModeLine, SetupTime |-> ShortSetupTime, CycleTime |-> CycleTime,
       ErrorRate |-> 0, ScrapRate |-> 0, OrderMinQty |-> q, OrderMaxQty |-> q,
       breaks |-> FALSE, calm |-> 0, ticks |-> MaxTicksFast,
       PublishInterval |-> Second] : q \in {1, 2} }
    \cup
    { [mode |-> ModeSingle, SetupTime |-> FastSetupTime, CycleTime |-> FastCycleTime,
       ErrorRate |-> 0, ScrapRate |-> 0, OrderMinQty |-> 2, OrderMaxQty |-> 2,
       breaks |-> FALSE, calm |-> 0, ticks |-> MaxTicksFastSingle,
       PublishInterval |-> Second] }

InitFast == InitFrom(FastScenarios)

NextFast == LineTick \/ SingleTick

SpecFast == InitFast /\ [][NextFast]_vars

----------------------------------------------------------------------------
(* The line left alone: no simulated errors, no scrap, no breaks *)

QuietScenarios ==
    {c \in Scenarios \cup FastScenarios :
        c.mode = ModeLine /\ c.ErrorRate = 0 /\ c.ScrapRate = 0 /\ ~c.breaks}

InitQuiet == InitFrom(QuietScenarios)

NextQuiet == LineTick

SpecQuiet == InitQuiet /\ [][NextQuiet]_vars

----------------------------------------------------------------------------
(* The driver from its tick loop to the end of the process *)

MaxTicksLife == 4

\* context.WithTimeout(context.Background(), 30*time.Second)
ShutdownTimeout == 30 * Second

\* case now := <-ticker.C
LifeTick ==
    /\ life.pc = "loop"
    /\ clock < MaxTicksLife * PublishInterval
    /\ (LineTick \/ SingleTick)

\* case <-ctx.Done(): goto shutdown, where the shutdown context is created
Cancel ==
    /\ life.pc = "loop"
    /\ life' = [life EXCEPT !.pc = "shutdown", !.deadline = ShutdownTimeout]
    /\ UNCHANGED <<cfg, clock, brk, fm, pr, sw, fbuf, wbuf, orders, coord, drv, wr, req,
                   budget, partOrderID, weldedParts, opcua, simPc, obs, erp, rc, post, get,
                   whole, bench, sm>>

\* runner.Stop(shutdownCtx): coordinator.Stop sets the line state and calls
\* Stop on the three machines.  Only runProductionLine has this step
StopLine ==
    /\ life.pc = "shutdown"
    /\ cfg.mode = ModeLine
    /\ Becomes([World EXCEPT !.coord.lineState = LineStateStopped])
    /\ life' = [life EXCEPT !.pc = "http", !.machines = "stopped"]
    /\ UNCHANGED <<brk, req, budget, partOrderID, weldedParts, opcua, simPc, obs, erp, rc,
                   post, get, whole, bench, sm>>

\* healthServer.Shutdown(shutdownCtx): the first step of main's shutdown, the
\* second of runProductionLine's
StopHealth ==
    /\ \/ life.pc = "http"
       \/ life.pc = "shutdown" /\ cfg.mode = ModeSingle
    /\ life' = [life EXCEPT !.pc = "opcua", !.http = "stopped"]
    /\ UNCHANGED <<cfg, clock, brk, fm, pr, sw, fbuf, wbuf, orders, coord, drv, wr, req,
                   budget, partOrderID, weldedParts, opcua, simPc, obs, erp, rc, post, get,
                   whole, bench, sm>>

\* opcuaServer.Stop(shutdownCtx) / runner.StopOPCUA(shutdownCtx), then return
StopOPCUA ==
    /\ life.pc = "opcua"
    /\ life' = [life EXCEPT !.pc = "exited", !.opcua = "stopped"]
    /\ UNCHANGED <<cfg, clock, brk, fm, pr, sw, fbuf, wbuf, orders, coord, drv, wr, req,
                   budget, partOrderID, weldedParts, opcua, simPc, obs, erp, rc, post, get,
                   whole, bench, sm>>

\* A panic is raised by code run in the ticker case; it unwinds the loop's
\* function, running its deferred calls
PanicInTick ==
    /\ life.pc = "loop"
    /\ life' = [life EXCEPT !.pc = "panicking", !.panics = @ + 1]
    /\ UNCHANGED <<cfg, clock, brk, fm, pr, sw, fbuf, wbuf, orders, coord, drv, wr, req,
                   budget, partOrderID, weldedParts, opcua, simPc, obs, erp, rc, post, get,
                   whole, bench, sm>>

\* The function deferred at the top of main recovers and logs; main returns
Recover ==
    /\ life.pc = "panicking"
    /\ life' = [life EXCEPT !.pc = "exited", !.logged = @ + 1]
    /\ UNCHANGED <<cfg, clock, brk, fm, pr, sw, fbuf, wbuf, orders, coord, drv, wr, req,
                   budget, partOrderID, weldedParts, opcua, simPc, obs, erp, rc, post, get,
                   whole, bench, sm>>

NextLife ==
    \/ LifeTick
    \/ Cancel
    \/ StopLine
    \/ StopHealth
    \/ StopOPCUA
    \/ PanicInTick
    \/ Recover

SpecLife == Init /\ [][NextLife]_vars

----------------------------------------------------------------------------
(* Claims *)

LineMachines == {"fm", "pr", "sw"}

Stations == IF cfg.mode = ModeLine THEN LineMachines ELSE {"wr"}

IsSuffix(s, t) == \E n \in 0 .. Len(t) : s = SubSeq(t, n + 1, Len(t))

FormingEjectEnd ==
    Fraction(cfg.CycleTime, 10) + Fraction(cfg.CycleTime, 40)
        + Fraction(cfg.CycleTime, 15) + Fraction(cfg.CycleTime, 15)

PickerReleaseEnd ==
    Fraction(cfg.CycleTime, 15) + Fraction(cfg.CycleTime, 8) + Fraction(cfg.CycleTime, 5)
        + Fraction(cfg.CycleTime, 8) + Fraction(cfg.CycleTime, 20)
        + Fraction(cfg.CycleTime, 8) + Fraction(cfg.CycleTime, 5)

\* C1: a tick that finds the forming machine Running in phase Eject with a full
\* output buffer and no break leaves the forming machine exactly as it was
\* (phase Eject, goodParts, scrapParts, cycleCount unchanged), pushes nothing
\* onto the buffer (its contents can only lose their head to the picker), and
\* leaves the current order's scrap quantity alone and its completed quantity
\* either alone or set by the driver to the line's reported progress.
C1_FormingStallsOnFullBuffer ==
    [][ ( /\ cfg.mode = ModeLine
          /\ fm.state = StateRunning
          /\ fm.phase = "Eject"
          /\ IsFull(fbuf)
          /\ brk' = 0 )
        => ( /\ fm' = fm
             /\ IsSuffix(fbuf'.q, fbuf.q)
             /\ fm.currentOrder # NoOrder =>
                   /\ orders'[fm.currentOrder].QuantityScrap
                         = orders[fm.currentOrder].QuantityScrap
                   /\ orders'[fm.currentOrder].QuantityCompleted
                         \in {orders[fm.currentOrder].QuantityCompleted,
                              coord'.totalPartsCompleted} ) ]_vars

\* C1 witness: the forming machine has sat through an Update in Eject, past the
\* end of the phase, with the buffer full
C1_Witness ==
    /\ fm.state = StateRunning
    /\ fm.phase = "Eject"
    /\ IsFull(fbuf)
    /\ brk = 0
    /\ clock - fm.cycleStartedAt >= FormingEjectEnd + PublishInterval

\* C2: when the picker's Release phase ends on a tick that finds the welder
\* input buffer full, the picker still holds the same part after the tick and
\* is still in phase Release.
C2_PickerStallsOnFullBuffer ==
    [][ ( /\ cfg.mode = ModeLine
          /\ pr.state = StateRunning
          /\ pr.phase = "Release"
          /\ pr.heldPartID # NoPart
          /\ IsFull(wbuf)
          /\ clock' - pr.cycleStartedAt >= PickerReleaseEnd
          /\ pr'.state = StateRunning )
        => ( pr'.heldPartID = pr.heldPartID /\ pr'.phase = "Release" ) ]_vars

\* The parts referenced by the four holders, one entry per reference
Holders ==
    fbuf.q \o wbuf.q
        \o (IF pr.heldPartID # NoPart THEN <<pr.heldPartID>> ELSE <<>>)
        \o (IF sw.currentPartID # NoPart THEN <<sw.currentPartID>> ELSE <<>>)

\* C3: no part is referenced twice among the forming output buffer, the
\* picker's held part, the welder input buffer and the welder's current part.
C3_OneHolderPerPart ==
    \A i, j \in 1 .. Len(Holders) : Holders[i] = Holders[j] => i = j

\* C3 witness: parts sit in both buffers, in the gripper and in the welder at once
C3_Witness ==
    /\ Count(fbuf) > 0
    /\ Count(wbuf) > 0
    /\ pr.heldPartID # NoPart
    /\ sw.currentPartID # NoPart

\* C4: the forming output buffer never holds more than 5 parts and the welder
\* input buffer never more than 3 (and neither fewer than 0).
C4_BufferWithinCapacity ==
    /\ fbuf.cap = FormingOutputBufferCapacity
    /\ wbuf.cap = WelderInputBufferCapacity
    /\ 0 <= Count(fbuf) /\ Count(fbuf) <= fbuf.cap
    /\ 0 <= Count(wbuf) /\ Count(wbuf) <= wbuf.cap

\* C4 witness: the picker has just released a part into the last free slot of
\* the welder input buffer while the forming buffer is full
C4_Witness ==
    /\ Count(fbuf) = FormingOutputBufferCapacity
    /\ Count(wbuf) = WelderInputBufferCapacity
    /\ pr.phase = "RetractPlace"

\* C5: on every order, in both modes, QuantityCompleted + QuantityScrap never
\* exceeds Quantity.
C5_OrderQuantitiesBounded ==
    \A o \in 1 .. Len(orders) :
        orders[o].QuantityCompleted + orders[o].QuantityScrap <= orders[o].Quantity

\* C6: a tick in which a station completes a production cycle raises exactly
\* one of its goodParts / scrapParts by exactly 1 (scrapParts iff the scrap roll
\* was true), raises the same quantity of the station's current order by
\* exactly 1, and dispatches OnCycleComplete exactly once.  (Ticks on which the
\* single-robot driver resets the counters are left out; the completed
\* quantity of the line's order may instead have been set by the driver.)
C6_CycleCountsOnce ==
    [][ \A k \in Stations :
          ( /\ World'[k].cycleCompleteFired # World[k].cycleCompleteFired
            /\ budget'.shifts = budget.shifts )
          => LET a == World[k]
                 b == World'[k]
                 o == a.currentOrder
                 scrapInc == IF b.lastScrapRoll THEN 1 ELSE 0
             IN /\ b.cycleCompleteFired = a.cycleCompleteFired + 1
                /\ b.scrapParts = a.scrapParts + scrapInc
                /\ b.goodParts = a.goodParts + (1 - scrapInc)
                /\ o # NoOrder =>
                      /\ orders'[o].QuantityScrap = orders[o].QuantityScrap + scrapInc
                      /\ orders'[o].QuantityCompleted
                            \in {orders[o].QuantityCompleted + (1 - scrapInc),
                                 coord'.totalPartsCompleted} ]_vars

\* C7: for every machine, currentError is present exactly when the machine is
\* in UnplannedStop, and a present error has ExpectedEnd > OccurredAt.
C7_ErrorIffUnplannedStop ==
    \A k \in {"fm", "pr", "sw", "wr"} :
        /\ World[k].currentError.present <=> World[k].state = StateUnplannedStop
        /\ World[k].currentError.present =>
              World[k].currentError.expectedEnd > World[k].currentError.occurredAt

\* C7 witness: a machine has been in UnplannedStop, its error installed, for at
\* least one tick
C7_Witness ==
    \E k \in Stations :
        /\ World[k].state = StateUnplannedStop
        /\ World[k].currentError.present
        /\ clock > World[k].currentError.occurredAt

\* The edges of the shared machine state diagram
LegalEdges ==
    { <<StateIdle, StateSetup>>, <<StateSetup, StateRunning>>,
      <<StateRunning, StatePlannedStop>>, <<StateRunning, StateUnplannedStop>>,
      <<StateRunning, StateIdle>>, <<StatePlannedStop, StateIdle>>,
      <<StateUnplannedStop, StateIdle>> }

\* C8: every change of a machine's state is along a legal edge, and a
\* TransitionTo request that is not along a legal edge leaves the state as it was.
C8_OnlyLegalTransitions ==
    [][ /\ \A k \in {"fm", "pr", "sw", "wr"} :
              World'[k].state # World[k].state
                  => <<World[k].state, World'[k].state>> \in LegalEdges
        /\ ( req' # req /\ <<req'.from, req'.to>> \notin LegalEdges )
              => World'[req'.machine].state = req'.from ]_vars

\* C9: a machine in UnplannedStop stays there over a tick whose time is before
\* ExpectedEnd, and on the first tick whose time is at or after ExpectedEnd it
\* clears its error and goes to Idle (so that, ticks coming, no UnplannedStop
\* lasts forever).
C9_RecoversAtExpectedEnd ==
    [][ \A k \in Stations :
          World[k].state = StateUnplannedStop
              => IF clock' >= World[k].currentError.expectedEnd
                 THEN /\ World'[k].state = StateIdle
                      /\ ~World'[k].currentError.present
                 ELSE World'[k].state = StateUnplannedStop ]_vars

\* C10 as stated: no machine's goodParts, scrapParts, cycleCount or totalWelds
\* ever decreases from one tick to the next, in either mode.
C10_CountersNeverDecrease ==
    [][ /\ \A k \in {"fm", "pr", "sw", "wr"} :
              /\ World'[k].goodParts >= World[k].goodParts
              /\ World'[k].scrapParts >= World[k].scrapParts
        /\ \A k \in LineMachines : World'[k].cycleCount >= World[k].cycleCount
        /\ sw'.totalWelds >= sw.totalWelds ]_vars

\* C10 amended: the line machines' goodParts, scrapParts, cycleCount and the
\* welder's totalWelds never decrease; the single robot's goodParts and
\* scrapParts never decrease over a tick without a shift change, and on a tick
\* with a shift change they restart from 0 (so they count at most the one cycle
\* that tick completes).
C10_CountersMonotoneWithinShift ==
    [][ /\ \A k \in LineMachines :
              /\ World'[k].goodParts >= World[k].goodParts
              /\ World'[k].scrapParts >= World[k].scrapParts
              /\ World'[k].cycleCount >= World[k].cycleCount
        /\ sw'.totalWelds >= sw.totalWelds
        /\ IF budget'.shifts < budget.shifts
           THEN wr'.goodParts + wr'.scrapParts <= 1
           ELSE /\ wr'.goodParts >= wr.goodParts
                /\ wr'.scrapParts >= wr.scrapParts ]_vars

\* C10 witness: the single robot has completed cycles, and a shift change has
\* since restarted its counters
C10_Witness ==
    /\ cfg.mode = ModeSingle
    /\ budget.shifts < MaxShiftChanges
    /\ wr.cycleCompleteFired >= 2
    /\ wr.goodParts + wr.scrapParts <= 1

\* C11: after every coordinator Update of a started line, the line state is
\* Error exactly when at least one of the three machines is in UnplannedStop
C11_LineErrorIffMachineError ==
    cfg.mode = ModeLine
        => ( coord.lineState = LineStateError
               <=> \E k \in LineMachines : World[k].state = StateUnplannedStop )

\* C12: at every tick an order has status Completed exactly when its
\* QuantityCompleted + QuantityScrap has reached its Quantity
C12_CompletedIffQuantityReached ==
    \A i \in DOMAIN orders :
        orders[i].Status = OrderStatusCompleted
            <=> orders[i].QuantityCompleted + orders[i].QuantityScrap >= orders[i].Quantity

\* The parts the spot welder has finished that were formed for order o
WeldedFor(o) ==
    {i \in DOMAIN weldedParts :
        /\ weldedParts[i].id \in DOMAIN partOrderID
        /\ partOrderID[weldedParts[i].id] = o}

GoodWeldedFor(o) == {i \in WeldedFor(o) : ~weldedParts[i].isScrap}

\* C13: in line mode the coordinator's current order is held by the forming
\* machine (as its current order or in its queue), the order's reported
\* QuantityCompleted counts no more than the good parts the spot welder has
\* finished for that order, and the order is Completed only when the parts the
\* welder has finished for it, with the order's scrap, reach its Quantity
C13_OrderProgressFromWelder ==
    (cfg.mode = ModeLine /\ coord.currentOrder # NoOrder)
        => LET o == coord.currentOrder
           IN /\ \/ fm.currentOrder = o
                 \/ \E i \in DOMAIN fm.orderQueue : fm.orderQueue[i] = o
              /\ orders[o].QuantityCompleted <= Cardinality(GoodWeldedFor(o))
              /\ orders[o].Status = OrderStatusCompleted
                    => Cardinality(WeldedFor(o)) + orders[o].QuantityScrap
                          >= orders[o].Quantity

\* Machine record f has order o as its current order or in its queue
HoldsOrder(f, o) ==
    f.currentOrder = o \/ \E i \in DOMAIN f.orderQueue : f.orderQueue[i] = o

\* C14: in line mode, in every tick (a) if the coordinator's current order
\* becomes Completed, then by the end of the tick a newly generated order with
\* a different id is the current order and the forming machine holds it;
\* (b) a forming machine that is Idle with no current and no queued order has
\* been given an order by the end of the next tick; (c) a forming machine that
\* is Idle with a queued order has left Idle after the next tick
C14_NewOrderAfterCompletion ==
    [][ cfg.mode = ModeLine
          => /\ ( /\ coord.currentOrder # NoOrder
                  /\ orders[coord.currentOrder].Status # OrderStatusCompleted
                  /\ orders'[coord.currentOrder].Status = OrderStatusCompleted )
                => ( /\ coord'.currentOrder > Len(orders)
                     /\ HoldsOrder(fm', coord'.currentOrder) )
             /\ ( fm.state = StateIdle /\ fm.currentOrder = NoOrder /\ fm.orderQueue = <<>> )
                => ( fm'.currentOrder # NoOrder \/ fm'.orderQueue # <<>> )
             /\ ( fm.state = StateIdle /\ fm.orderQueue # <<>> )
                => fm'.state # StateIdle ]_vars

\* The forming machine has been held in Eject by a full output buffer (its
\* ejection has been due since before the latest Update) and the picker has
\* just gripped a part out of that buffer, which leaves room for one part
EjectReleased ==
    /\ cfg.mode = ModeLine
    /\ fm.state = StateRunning
    /\ fm.phase = "Eject"
    /\ clock - fm.cycleStartedAt >= FormingEjectEnd + PublishInterval
    /\ Count(fbuf) = fbuf.cap - 1
    /\ pr.phase = "RetractPickup"
    /\ pr.heldPartID # NoPart

\* Part p is in the forming output buffer or has been gripped from it
PushedPart(p) == (\E i \in DOMAIN fbuf.q : fbuf.q[i] = p) \/ pr.heldPartID = p

\* C15: once a consumer has popped from the full buffer that holds the forming
\* machine in Eject, the forming machine's next Update pushes the ejected part
\* into the buffer and leaves Eject
C15_EjectResumesAfterPop ==
    [][ EjectReleased => ( fm'.phase # "Eject" /\ PushedPart(fm.currentPartID)' ) ]_vars

\* C15 as amended: when that next Update is not in a break, the machine leaves
\* Eject for Raise and the part is either pushed into the buffer or, on a true
\* scrap roll, counted as scrap and not pushed; when it is in a break the
\* machine goes to PlannedStop and the part is not pushed
C15_EjectResumesUnlessScrapOrBreak ==
    [][ EjectReleased
          => IF brk' = 0
             THEN /\ fm'.state = StateRunning
                  /\ fm'.phase = "Raise"
                  /\ \/ PushedPart(fm.currentPartID)' /\ fm'.scrapParts = fm.scrapParts
                     \/ ~PushedPart(fm.currentPartID)' /\ fm'.scrapParts > fm.scrapParts
             ELSE /\ fm'.state = StatePlannedStop
                  /\ ~PushedPart(fm.currentPartID)' ]_vars

\* The forming machine has just resumed after a stall: its cycle has run past
\* the cycle time, the part it ejected is the newest in the buffer, and the
\* picker holds the part whose removal made room
C15_Witness ==
    /\ cfg.mode = ModeLine
    /\ fm.state = StateRunning
    /\ fm.phase = "Raise"
    /\ clock - fm.cycleStartedAt > cfg.CycleTime
    /\ Len(fbuf.q) > 0
    /\ fbuf.q[Len(fbuf.q)] = fm.currentPartID
    /\ pr.heldPartID # NoPart

C17_TickStepOrder ==
    [][ clock' > clock
          => IF cfg.mode = ModeLine
             THEN /\ coord'.lineState = LineStateError
                        <=> \E k \in LineMachines : World'[k].state = StateUnplannedStop
                  /\ coord'.totalPartsCompleted = sw'.goodParts
                  /\ coord'.totalPartsScrap = sw'.scrapParts
                  /\ coord'.pickingCompleted = pr'.goodParts
                  /\ coord'.formingCompleted = fm'.goodParts
                  /\ coord'.activeErrors
                        = Cardinality({k \in LineMachines : World'[k].currentError.present})
                  /\ opcua' = Published(World)'
             ELSE /\ budget'.shifts < budget.shifts => wr'.goodParts + wr'.scrapParts <= 1
                  /\ opcua' = Published(World)' ]_vars

\* C18: no REST handler and no ERP push task reads machine state, counters or
\* order objects while the simulation thread is inside a tick, unless under a
\* lock it shares with the simulation thread
C18_ReadersSynchronised == ~obs.unsynchronised /\ ~erp.unsynchronised

\* C19: a Snapshot taken while updates are being written returns values that
\* were all current together and belong to one whole state of the
\* configuration: the state before an update or the state after it, never the
\* state of an update applied in part
C19_SnapshotSeesWholeUpdate ==
    get.snap # NoSnapshot
        => /\ \E f \in whole :
                /\ get.snap.CycleTimeScale = f.cycleTimeScale
                /\ get.snap.ScrapRate = f.scrapRate
                /\ get.snap.ErrorRate = f.errorRate
           /\ get.snap.EffectiveCycleTime
                 = (get.snap.BaseCycleTime * 100) \div get.snap.CycleTimeScale
           /\ get.snap.EffectiveSetupTime
                 = (get.snap.BaseSetupTime * 100) \div get.snap.CycleTimeScale

\* The range the claim gives for each setter
InRange(k, v) ==
    CASE k = "cycleTimeScale" -> 10 <= v /\ v <= 1000
      [] k = "scrapRate" -> 0 <= v /\ v <= 500
      [] OTHER -> 0 <= v /\ v <= 200

\* C20: a call of a setter is accepted exactly when its value lies in the
\* setter's range; an accepted call sets its field to the value and changes
\* no other field, a rejected call returns an error and leaves every field of
\* the RuntimeConfig as it was
C20_SetterAcceptsIffInRange ==
    [][ \A k \in Setters :
          /\ (post.pc = k /\ post.stage = "check" /\ post.body[k].present /\ post' # post)
                => /\ Fields(rc') = Fields(rc)
                   /\ IF InRange(k, post.body[k].v)
                      THEN post'.pc = k /\ post'.stage = "lock" /\ post'.result[k] = "none"
                      ELSE post'.result[k] = "error" /\ post'.status = 400
          /\ (post.pc = k /\ post.stage = "lock")
                => Fields(rc') = Fields(rc)
          /\ (post.pc = k /\ post.stage = "locked" /\ post' # post)
                => /\ InRange(k, post.body[k].v)
                   /\ post'.result[k] = "ok"
                   /\ Fields(rc') = [Fields(rc) EXCEPT ![k] = post.body[k].v]
          /\ post' = post => Fields(rc') = Fields(rc) ]_vars

\* One request in which the first setter accepted a value at the upper end of
\* its range and wrote it, and the next setter rejected a value just above its
\* range
C20_Witness ==
    /\ post.result["cycleTimeScale"] = "ok"
    /\ post.body["cycleTimeScale"].v = 1000
    /\ rc.cycleTimeScale = 1000
    /\ post.result["scrapRate"] = "error"
    /\ post.body["scrapRate"].v = 501
    /\ post.status = 400

\* The cycle duration the current RuntimeConfig calls for
EffectiveCycle == (rc.baseCycleTime * 100) \div rc.cycleTimeScale

\* C21: in every tick of the line each station works with base cycle time /
\* cycleTimeScale and with the runtime rates.  Observed on the second phase of
\* each station's cycle: a station that keeps running leaves that phase in a
\* tick exactly when the time since the cycle start has reached the phase's end
\* under the effective cycle duration; with a runtime errorRate of 0 no station
\* falls into an error, and with a runtime scrapRate of 0 no station that
\* keeps out of error counts a scrap part
C21_StationsUseRuntimeConfig ==
    [][ (cfg.mode = ModeLine /\ clock' > clock)
          => /\ (fm.state = StateRunning /\ fm.phase = "Form" /\ fm'.state = StateRunning)
                  => (fm'.phase = "Hold"
                        <=> clock' - fm.cycleStartedAt
                              >= Fraction(EffectiveCycle, 10) + Fraction(EffectiveCycle, 40))
             /\ (pr.state = StateRunning /\ pr.phase = "ApproachPickup"
                   /\ pr'.state = StateRunning)
                  => (pr'.phase = "Grip"
                        <=> clock' - pr.cycleStartedAt
                              >= Fraction(EffectiveCycle, 15) + Fraction(EffectiveCycle, 8))
             /\ (sw.state = StateRunning /\ sw.phase = "Clamp" /\ sw'.state = StateRunning)
                  => (sw'.phase = "PreWeld"
                        <=> clock' - sw.cycleStartedAt
                              >= Fraction(EffectiveCycle, 10) + Fraction(EffectiveCycle, 10))
             /\ rc.errorRate = 0
                  => \A k \in LineMachines :
                        World[k].state = StateRunning => World[k]'.state # StateUnplannedStop
             /\ rc.scrapRate = 0
                  => \A k \in LineMachines :
                        World[k]'.state # StateUnplannedStop
                           => World[k]'.scrapParts = World[k].scrapParts ]_vars

\* C22: Push returns false exactly when the buffer holds as many parts as its
\* capacity at the call; a Push that failed leaves the buffer as it was, a
\* Push that succeeded appends the part at the tail and adds one to the count
C22_PushFailsIffFull ==
    [][ (bench'.calls > bench.calls /\ bench'.call = "Push")
          => /\ ~bench'.ok <=> Count(bench.pb) = bench.pb.cap
             /\ ~bench'.ok => bench'.pb = bench.pb
             /\ bench'.ok => /\ bench'.pb.q = Append(bench.pb.q, bench'.arg)
                             /\ Count(bench'.pb) = Count(bench.pb) + 1
                             /\ bench'.pb.cap = bench.pb.cap ]_vars

\* A Push was refused by a full buffer after Pushes that were accepted
C22_Witness ==
    /\ bench.call = "Push"
    /\ ~bench.ok
    /\ Count(bench.pb) = bench.pb.cap
    /\ Len(bench.pushed) >= bench.pb.cap

\* C23: Pop returns a miss exactly when the buffer is empty; otherwise it
\* removes and returns the part pushed earliest among those in the buffer, so
\* the parts a buffer has returned are, in order, the first of the parts it
\* accepted
C23_PopReturnsOldest ==
    [][ (bench'.calls > bench.calls /\ bench'.call = "Pop")
          => /\ bench'.part = NoPart <=> Count(bench.pb) = 0
             /\ bench'.part = NoPart => bench'.pb = bench.pb
             /\ bench'.part # NoPart
                  => /\ bench'.part = bench.pb.q[1]
                     /\ bench'.pb.q = Tail(bench.pb.q)
                     /\ bench'.pb.cap = bench.pb.cap
                     /\ \A i \in DOMAIN bench.pb.q : bench'.part <= bench.pb.q[i]
             /\ Len(bench'.popped) <= Len(bench'.pushed)
             /\ \A i \in DOMAIN bench'.popped : bench'.popped[i] = bench'.pushed[i] ]_vars

\* Parts were popped after later parts had been pushed behind them, and a Pop
\* on the emptied buffer missed
C23_Witness ==
    /\ bench.call = "Pop"
    /\ bench.part = NoPart
    /\ Len(bench.popped) >= 2
    /\ bench.popped = bench.pushed

\* The end of the picker's Grip phase under the cycle time the picker uses
PickerGripEnd ==
    Fraction(GetEffectiveCycleTime(World), 15) + Fraction(GetEffectiveCycleTime(World), 8)
        + Fraction(GetEffectiveCycleTime(World), 5)

\* C24: when the picker, running in phase Grip, reaches the end of the phase
\* and its input buffer is empty, it stays in Grip with no part in hand (and
\* tries again in the next tick); the forming machine ejects no part in that
\* tick
C24_GripRetriesOnEmptyBuffer ==
    [][ (/\ cfg.mode = ModeLine
         /\ clock' > clock
         /\ pr.state = StateRunning
         /\ pr.phase = "Grip"
         /\ pr'.state = StateRunning
         /\ clock' - pr.cycleStartedAt >= PickerGripEnd
         /\ IsEmpty(fbuf) /\ IsEmpty(fbuf')
         /\ partOrderID' = partOrderID)
          => (pr'.phase = "Grip" /\ pr'.heldPartID = NoPart) ]_vars

\* The picker puts the part it holds into the welder input buffer in this tick
PickerDelivers == pr.phase = "Release" /\ pr.heldPartID # NoPart /\ pr'.phase = "RetractPlace"

\* The part at the head of the welder input buffer when the welder is updated
\* in this tick, NoPart if the buffer is empty then
HeadAtWelderUpdate ==
    IF ~IsEmpty(wbuf) THEN wbuf.q[1]
    ELSE IF PickerDelivers THEN pr.heldPartID
    ELSE NoPart

\* C25: in the tick in which the spot welder's setup time has passed, the
\* welder pops its input buffer: with a part at the head of the buffer it is
\* Running afterwards, in phase Load of a cycle started in this tick, with
\* exactly that part as its current part and the part gone from the buffer;
\* with the buffer empty it is Idle afterwards; in both cases its counters are
\* as before
C25_SetupEndPopsOrIdles ==
    [][ (/\ cfg.mode = ModeLine
         /\ clock' > clock
         /\ sw.state = StateSetup
         /\ clock' - sw.stateEnteredAt >= cfg.SetupTime)
          => /\ IF HeadAtWelderUpdate # NoPart
                THEN /\ sw'.state = StateRunning
                     /\ sw'.phase = "Load"
                     /\ sw'.cycleStartedAt = clock'
                     /\ sw'.currentPartID = HeadAtWelderUpdate
                     /\ \A i \in DOMAIN wbuf'.q : wbuf'.q[i] # HeadAtWelderUpdate
                ELSE /\ sw'.state = StateIdle
                     /\ sw'.currentPartID = NoPart
                     /\ IsEmpty(wbuf')
             /\ sw'.goodParts = sw.goodParts
             /\ sw'.scrapParts = sw.scrapParts
             /\ sw'.cycleCount = sw.cycleCount
             /\ sw'.totalWelds = sw.totalWelds
             /\ sw'.cycleCompleteFired = sw.cycleCompleteFired ]_vars

\* The welder has gone back to Idle in this tick without ever having run: its
\* setup ended on a buffer that a Pop from outside had emptied
C25_Witness ==
    /\ cfg.mode = ModeLine
    /\ sw.state = StateIdle
    /\ sw.stateEnteredAt = clock
    /\ clock > 0
    /\ sw.cycleCount = 0
    /\ sw.currentPartID = NoPart
    /\ IsEmpty(wbuf)
    /\ bench.call = "Pop"
    /\ bench.part # NoPart
    /\ pr.goodParts > 0

\* C26: the forming machine never scraps a part for want of room: in every
\* tick in which it carries out the eject step (phase Eject to phase Raise) its
\* output buffer has room at the Push, and whatever the step adds to the
\* machine's scrap count it also adds to the order's scrap count, as the
\* branch for a rolled scrap does and the branch for a full buffer does not
C26_EjectNeverScrapsOnFull ==
    [][ (/\ cfg.mode = ModeLine
         /\ clock' > clock
         /\ fm.state = StateRunning
         /\ fm.phase = "Eject"
         /\ fm'.state = StateRunning
         /\ fm'.phase = "Raise")
          => /\ ~IsFull(fbuf)
             /\ fm.currentOrder # NoOrder
                  => fm'.scrapParts - fm.scrapParts
                        = orders'[fm.currentOrder].QuantityScrap
                             - orders[fm.currentOrder].QuantityScrap
             /\ fm'.scrapParts = fm.scrapParts => PushedPart(fm.currentPartID)' ]_vars

\* An eject has just filled the output buffer to its capacity, the part pushed
\* last being the one just formed, and nothing was scrapped on the way
C26_Witness ==
    /\ cfg.mode = ModeLine
    /\ fm.state = StateRunning
    /\ fm.phase = "Raise"
    /\ IsFull(fbuf)
    /\ fbuf.q[Len(fbuf.q)] = fm.currentPartID
    /\ fm.scrapParts = 0
    /\ clock - fm.cycleStartedAt <= cfg.CycleTime

\* C27: every part that passes through the Weld phase adds exactly WeldsPerPart
\* to totalWelds and to the electrode weld count.  While every part that has
\* left the welder left it at the end of a full cycle, and the part in the
\* welder has passed the Weld phase, both counts are WeldsPerPart times the
\* number of these parts
C27_FourWeldsPerPart ==
    (/\ cfg.mode = ModeLine
     /\ sw.state = StateRunning
     /\ sw.phase \in {"Hold", "Release", "Unload"}
     /\ Len(weldedParts) = sw.cycleCount)
        => /\ sw.totalWelds = WeldsPerPart * (sw.cycleCount + 1)
           /\ sw.electrodeWeldCount = WeldsPerPart * (sw.cycleCount + 1)

\* C28: after every Update of the coordinator, totalPartsScrap is the sum of
\* the scrap counts of the forming machine, the picker and the spot welder
C28_LineScrapIsSumOfStations ==
    cfg.mode = ModeLine
        => coord.totalPartsScrap = fm.scrapParts + pr.scrapParts + sw.scrapParts

\* The shift that covers the time now under the manager's model: its place in
\* the schedule and the time it starts
Covering(now) ==
    [number |-> GetCurrentShift(sm.model, now).ShiftNumber,
     start |-> GetCurrentShift(sm.model, now).StartTime]

\* C29: a call of HasShiftChanged that has a call before it returns changed =
\* true, together with the shift covering now, exactly when the shift covering
\* now differs from the shift that covered the time of the call before; it
\* returns changed = false and no shift otherwise
C29_ChangedIffShiftDiffers ==
    [][ (sm.made /\ sm.calls >= 1 /\ sm'.calls > sm.calls)
          => /\ sm'.ret.changed <=> Covering(sm'.now) # Covering(sm.now)
             /\ sm'.ret.changed
                  => /\ sm'.ret.shift # NoShift
                     /\ sm'.heap[sm'.ret.shift].ShiftNumber = Covering(sm'.now).number
                     /\ sm'.heap[sm'.ret.shift].StartTime = Covering(sm'.now).start
                     /\ sm'.currentShift = sm'.ret.shift
             /\ ~sm'.ret.changed
                  => /\ sm'.ret.shift = NoShift
                     /\ sm'.currentShift = sm.currentShift ]_vars

\* Under the 3-shift model a call at 14:00 has returned the Afternoon shift as
\* changed, after a call made in the Morning shift
C29_Witness ==
    /\ sm.made
    /\ sm.model = "3-shift"
    /\ sm.calls >= 2
    /\ Hour(sm.now) = 14
    /\ sm.ret.changed
    /\ sm.heap[sm.ret.shift].ShiftName = "Afternoon"
    /\ sm.heap[sm.ret.shift - 1].ShiftName = "Morning"
    /\ sm.heap[sm.ret.shift - 1].Status = ShiftStatusEnded

\* The Shift objects the program holds (the manager's current shift and the
\* state machine's) that have status Active
ActiveShifts ==
    {i \in {sm.currentShift, sm.held} \ {NoShift} : sm.heap[i].Status = ShiftStatusActive}

\* C30: at most one Shift is Active at any moment, and whenever a shift
\* becomes Active that is not one of the shifts Active before, every Shift
\* that was Active before has status Ended afterwards
C30_OneActiveShift ==
    [][ sm'.made
          => /\ Cardinality(ActiveShifts') <= 1
             /\ (\E i \in ActiveShifts' :
                    \A j \in ActiveShifts : sm.heap[j].ShiftID # sm'.heap[i].ShiftID)
                  => \A j \in ActiveShifts : sm'.heap[j].Status = ShiftStatusEnded ]_vars

\* C31: the shift GetCurrentShift returns for an instant covers that instant,
\* StartTime <= now < EndTime, under every shift model
C31_CurrentShiftCoversNow ==
    sm.made
      => LET shift == GetCurrentShift(sm.model, sm.now)
         IN shift.StartTime <= sm.now /\ sm.now < shift.EndTime

\* The time of the latest SendOrderUpdate before this tick and the completion
\* count it carried: the update of a tick, or the initial order's at start
LastPushAt == IF drv.lastOrderUpdate < 0 THEN 0 ELSE drv.lastOrderUpdate

LastPushedCount == IF drv.lastOrderUpdate < 0 THEN 0 ELSE drv.lastCompletedCount

\* C32: on a tick of the line driver an update of the current order is pushed to
\* the ERP exactly when the order's completion count differs from the count at
\* the last push or at least 5 s have passed since the last push
C32_PushIffChangedOrFiveSeconds ==
    [][ (cfg.mode = ModeLine /\ clock' # clock)
          => ( coord.currentOrder \in SentOrders(World, World')
                 <=> \/ GetOrderProgress(World').completed # LastPushedCount
                     \/ clock' - LastPushAt >= OrderUpdatePeriod ) ]_vars

\* C33: the fields of an existing order change only in the Update of a
\* machine that holds the order as its current order; the driver's order
\* bookkeeping, the coordinator's aggregation, the ERP push and the HTTP
\* readers leave every existing order as it is
C33_OnlyOwnerWritesOrder ==
    [][ \A o \in DOMAIN orders :
            orders'[o] # orders[o]
              => \E k \in {"fm", "pr", "sw"} :
                    /\ simPc = k
                    /\ (World[k].currentOrder = o \/ World'[k].currentOrder = o) ]_vars

\* The single welding robot of the 1 s runs after 15 s of ticks, undisturbed:
\* no shift change has reset its counters
After15s ==
    /\ cfg.mode = ModeSingle
    /\ cfg.PublishInterval = Second
    /\ cfg.CycleTime = FastCycleTime
    /\ cfg.SetupTime = FastSetupTime
    /\ clock = 15 * Second
    /\ budget.shifts = MaxShiftChanges

\* C34: a single welding robot with a cycle time of 10 s, a setup time of 5 s,
\* no errors, no scrap, a 1 s tick and an order queued at start is Running
\* after 15 s of ticks, has completed one cycle with one good part and no
\* scrap, and has an arc time of about 9 s
C34_OnePartAfter15s ==
    After15s
      => /\ wr.state = StateRunning
         /\ wr.cycleCompleteFired = 1
         /\ wr.goodParts = 1
         /\ wr.scrapParts = 0
         /\ wr.arcTime >= 8 * Second + 2
         /\ wr.arcTime <= 9 * Second + 2

\* C35: after the cancellation signal the driver stops the machines before it
\* stops a sink (HTTP server, OPC UA server), in both modes, and the shutdown
\* runs under a deadline of 30 s
C35_MachinesStopBeforeSinks ==
    /\ (life.http = "stopped" \/ life.opcua = "stopped")
          => life.machines = "stopped"
    /\ life.pc \in {"shutdown", "http", "opcua"} => life.deadline = 30 * Second

\* C36: a panic raised inside a tick is recovered and logged, and the process
\* goes on running its tick loop
C36_PanicDoesNotEndProcess ==
    (life.panics > 0 /\ life.pc # "panicking")
      => life.logged = life.panics /\ life.pc = "loop"

\* The parts that are in the forming output buffer, in the picker's grip, in
\* the welder input buffer or in the welder's current-part slot
PartsInLine == {Holders[i] : i \in 1 .. Len(Holders)}

\* C37: every part the forming machine pushed is in exactly one of the four
\* places of the line, or has been counted exactly once as finished by the
\* spot welder (good or scrap) or as scrap by the picker
C37_NoPartLost ==
    /\ \A i, j \in 1 .. Len(Holders) : Holders[i] = Holders[j] => i = j
    /\ PartsInLine \subseteq DOMAIN partOrderID
    /\ Cardinality(DOMAIN partOrderID \ PartsInLine)
          = sw.goodParts + sw.scrapParts + pr.scrapParts

\* The spot welder has finished part p
Welded(p) == \E i \in 1 .. Len(weldedParts) : weldedParts[i].id = p

\* The end of the explored time
AtHorizon == clock >= cfg.ticks * cfg.PublishInterval

\* The time a part needs at most from an idle line to the end of its weld
\* when nothing disturbs the line: three setups and three cycles
FinishGap == 3 * cfg.SetupTime + 3 * cfg.CycleTime

\* C38: with no errors and no breaks the line does not deadlock.  Over the
\* explored time: when the time ends, the spot welder has finished parts if the
\* time sufficed for one, and every part the forming machine pushed has been
\* welded or is still on its way to the welder
C38_LineNeverDeadlocks ==
    AtHorizon
      => /\ \A p \in DOMAIN partOrderID : Welded(p) \/ p \in PartsInLine
         /\ FinishGap <= cfg.ticks * cfg.PublishInterval
               => sw.goodParts + sw.scrapParts > 0

\* C39: a POST /api/config that is answered with 400 leaves every field of the
\* RuntimeConfig as it was before the request
C39_RejectedUpdateChangesNothing ==
    [][ (post'.served > post.served /\ post'.status = 400)
          => Fields(rc') = Fields(rc) ]_vars

\* C40: in line mode the forming machine's order queue stays bounded: at every
\* tick at most one order is queued behind the order in progress
C40_OrderQueueBounded ==
    cfg.mode = ModeLine => Len(fm.orderQueue) <= 1

============================================================================
